---- MODULE Spec2Model ----
(***************************************************************************)
(* Model of gocards (github.com/greglange/gocards): the card file parser,  *)
(* the spaced-repetition scheduler, the progress store and the HTTP        *)
(* handler that changes cards and saves progress.                          *)
(*                                                                         *)
(* Text is modelled as a sequence of one-character strings, so that        *)
(* strings.Split, strings.Trim, strings.HasPrefix and the bracket regexp   *)
(* are computed as the Go code computes them.                              *)
(***************************************************************************)
EXTENDS Integers, Sequences, FiniteSets, TLC

VARIABLES
    \* LoadCards (pkg/gocards/gocards.go:397-517): the locals of one run
    parseState,     \* parseState
    cards,          \* cards
    fronts,         \* fronts (the ids seen so far)
    lineNumber,     \* lineNumber
    line,           \* line: the line scanned last
    scanned,        \* the lines of the file the scanner has returned so far
    loadErr,        \* "" or the error LoadCards returned
    returned,       \* TRUE once LoadCards has returned
    \* the scheduler (pkg/gocards/gocards.go:43-64): one card and a call on it
    card,           \* the receiver of Card.Interval and Card.Due
    outcome,        \* what the last call returned, or that it panicked
    \* the wall clock read by time.Now(), in hours
    now,
    \* the files and the process (cmd/gocards.go)
    disk,           \* the progress file of each card set
    up,             \* TRUE while the httpHandler exists (newHttpHandler succeeded)
    cardSets,       \* httpHandler.cardSets: the cards of each card set
    session,        \* httpHandler.session
    save,           \* httpHandler.save
    page,           \* what the last request wrote to its response
    changes,        \* the number of changes recorded so far (bounds the run)
    \* newHttpHandler finding the card sets (cmd/gocards.go:83-102)
    rootPath,       \* o.s["path"]
    cardFiles,      \* the file cardFiles of the root path
    findStage,      \* how far newHttpHandler has come
    paths,          \* what LoadCardSetPaths returned
    walked,         \* the number of entries of paths findRemotePathCardSets has walked
    found,          \* the local cardSets of findRootPathCardSets, findRemotePathCardSets
    findErr,        \* "" or the error newHttpHandler returns
    kept,           \* httpHandler.cardSets, once the handler is made
    \* two requests served at once, each by its own goroutine (net/http)
    reviewReq,      \* the POST of a review: how far handleCardSetPost has come
    saveReq         \* the POST of the update: how far saveCardSets has come

pvars == <<parseState, cards, fronts, lineNumber, line, scanned, loadErr, returned>>

svars == <<card, outcome>>

hvars == <<disk, up, cardSets, session, save, page, changes>>

dvars == <<rootPath, cardFiles, findStage, paths, walked, found, findErr, kept>>

cvars == <<reviewReq, saveReq>>

vars == <<parseState, cards, fronts, lineNumber, line, scanned, loadErr, returned,
          card, outcome, now, disk, up, cardSets, session, save, page, changes,
          rootPath, cardFiles, findStage, paths, walked, found, findErr, kept,
          reviewReq, saveReq>>

-----------------------------------------------------------------------------
(* Text helpers *)

Delim == <<" ", "|", " ">>
\* The backquote character U+0060 (one character of text)
Backquote == "BQ"
Tick == <<Backquote>>
Fence == <<Backquote, Backquote, Backquote>>

\* the cutset of strings.Trim in trim(): space and tab
IsCut(c) == c \in {" ", "\t"}

RECURSIVE TrimLeft(_)
TrimLeft(s) ==
    IF s = <<>> THEN s
    ELSE IF IsCut(Head(s)) THEN TrimLeft(Tail(s)) ELSE s

RECURSIVE TrimRight(_)
TrimRight(s) ==
    IF s = <<>> THEN s
    ELSE IF IsCut(s[Len(s)]) THEN TrimRight(SubSeq(s, 1, Len(s) - 1)) ELSE s

trim(s) == TrimRight(TrimLeft(s))

HasPrefix(s, p) == Len(s) >= Len(p) /\ SubSeq(s, 1, Len(p)) = p

\* strings.Index: the first position where sep occurs in s, 0 when it does not
Index(s, sep) ==
    LET hits == {i \in 1..(Len(s) - Len(sep) + 1) :
                    SubSeq(s, i, i + Len(sep) - 1) = sep}
    IN IF hits = {} THEN 0 ELSE CHOOSE i \in hits : \A j \in hits : i <= j

\* strings.Split: leftmost, non-overlapping occurrences of sep
RECURSIVE Split(_, _)
Split(s, sep) ==
    LET i == Index(s, sep)
    IN IF i = 0 THEN <<s>>
       ELSE <<SubSeq(s, 1, i - 1)>> \o Split(SubSeq(s, i + Len(sep), Len(s)), sep)

(* The regexp of parseOneSide and parseTwoSides: optional leading space, an
   opening bracket, a lazy group of at least one character (m1), a closing
   bracket and the remainder (m2). The leading space is matched greedily and
   the opening bracket is no space, so the bracket is the first non-space
   character; the lazy group ends at the first closing bracket found from
   its second character on. m0 is the whole match, which is all of s. *)
IsReSpace(c) == c \in {" ", "\t"}

RECURSIVE SkipSpace(_, _)
SkipSpace(s, i) ==
    IF i <= Len(s) /\ IsReSpace(s[i]) THEN SkipSpace(s, i + 1) ELSE i

FindStringSubmatch(s) ==
    LET i == SkipSpace(s, 1)
        closers == {j \in (i + 2)..Len(s) : s[j] = "]"}
    IN IF i <= Len(s) /\ s[i] = "[" /\ closers # {}
       THEN LET j == CHOOSE k \in closers : \A l \in closers : k <= l
            IN [ok |-> TRUE, m0 |-> s,
                m1 |-> SubSeq(s, i + 1, j - 1),
                m2 |-> SubSeq(s, j + 1, Len(s))]
       ELSE [ok |-> FALSE, m0 |-> <<>>, m1 |-> <<>>, m2 |-> <<>>]

-----------------------------------------------------------------------------
(* Card *)

\* LastReviewTime's zero value (time.Time{}), in hours before the model's epoch
ZeroTime == -17750000

\* md5.Sum of the id: a digest, taken to be collision free
Md5Sum(id) == <<"md5:">> \o id

NewCard(id, inCardFile, front, back) ==
    [Md5 |-> Md5Sum(id), Id |-> id, InCardFile |-> TRUE,
     Front |-> front, Back |-> back,
     LastReviewTime |-> ZeroTime, CorrectCount |-> 0]

NewCardStats(id, lastReviewTime, correctCount) ==
    [Md5 |-> Md5Sum(id), Id |-> id, InCardFile |-> FALSE,
     Front |-> <<>>, Back |-> <<>>,
     LastReviewTime |-> lastReviewTime, CorrectCount |-> correctCount]

-----------------------------------------------------------------------------
(* Spaced-repetition scheduler *)

Intervals == <<0, 0, 0, 1, 1, 2, 3, 5, 8, 13, 21, 34, 55, 89, 144, 233, 377>>

\* The index Card.Interval reads (0-based, as in Go)
IntervalIndex(c) ==
    IF c.CorrectCount > Len(Intervals) THEN Len(Intervals) - 1 ELSE c.CorrectCount

\* Intervals[index] panics when the index is outside the array
IntervalPanics(c) == IntervalIndex(c) < 0 \/ IntervalIndex(c) >= Len(Intervals)

Interval(c) == Intervals[IntervalIndex(c) + 1]

\* The largest time.Duration (2^63 - 1 nanoseconds), in whole hours
MaxDurationHours == 2562047

\* Time.Sub: the difference, saturated at the largest and smallest Duration
Sub(t, u) ==
    IF t - u > MaxDurationHours THEN MaxDurationHours
    ELSE IF t - u < 0 - MaxDurationHours THEN 0 - MaxDurationHours
    ELSE t - u

\* Card.Due with <= where the code has <.
DueLate(c, t) ==
    IF Interval(c) > 0
    THEN ~(Sub(t, c.LastReviewTime) <= Interval(c) * 24)
    ELSE FALSE

\* Card.Due at the instant t = time.Now(); the interval is Interval(c)
Due(c, t) ==
    IF Interval(c) > 0
    THEN ~(Sub(t, c.LastReviewTime) < Interval(c) * 24)
    ELSE FALSE

-----------------------------------------------------------------------------
(* Card file parser *)

newCard == "newCard"
frontMulti == "frontMulti"
frontMultiCode == "frontMultiCode"
backMulti == "backMulti"
backMultiCode == "backMultiCode"

\* The variant of parseOneSide that takes the id from the whole match and the
\* front from the bracketed text.
parseOneSideWholeMatch(s) ==
    LET m == FindStringSubmatch(s)
    IN IF ~m.ok
       THEN [id |-> trim(s), front |-> trim(s), parseState |-> newCard]
       ELSE IF trim(m.m1) = Tick
            THEN [id |-> trim(m.m0), front |-> <<>>, parseState |-> frontMulti]
       ELSE IF trim(m.m1) = Fence
            THEN [id |-> trim(m.m0), front |-> <<>>, parseState |-> frontMultiCode]
       ELSE [id |-> trim(m.m0), front |-> trim(m.m1), parseState |-> newCard]

parseOneSide(s) ==
    LET m == FindStringSubmatch(s)
    IN IF ~m.ok
       THEN [id |-> trim(s), front |-> trim(s), parseState |-> newCard]
       ELSE IF trim(m.m2) = Tick
            THEN [id |-> trim(m.m1), front |-> <<>>, parseState |-> frontMulti]
       ELSE IF trim(m.m2) = Fence
            THEN [id |-> trim(m.m1), front |-> Fence, parseState |-> frontMultiCode]
       ELSE [id |-> trim(m.m1), front |-> trim(m.m2), parseState |-> newCard]

\* parseTwoSides with the two capture groups taken in the wrong order.
parseTwoSidesSwapped(s1, s2) ==
    LET m == FindStringSubmatch(s1)
        idf == IF ~m.ok THEN [id |-> trim(s1), front |-> trim(s1)]
               ELSE [id |-> trim(m.m2), front |-> trim(m.m1)]
    IN IF trim(s2) = Tick
       THEN [id |-> idf.id, front |-> idf.front, back |-> <<>>,
             parseState |-> backMulti]
       ELSE IF trim(s2) = Fence
       THEN [id |-> idf.id, front |-> idf.front, back |-> Fence,
             parseState |-> backMultiCode]
       ELSE [id |-> idf.id, front |-> idf.front, back |-> trim(s2),
             parseState |-> newCard]

parseTwoSides(s1, s2) ==
    LET m == FindStringSubmatch(s1)
        idf == IF ~m.ok THEN [id |-> trim(s1), front |-> trim(s1)]
               ELSE [id |-> trim(m.m1), front |-> trim(m.m2)]
    IN IF trim(s2) = Tick
       THEN [id |-> idf.id, front |-> idf.front, back |-> <<>>,
             parseState |-> backMulti]
       ELSE IF trim(s2) = Fence
       THEN [id |-> idf.id, front |-> idf.front, back |-> Fence,
             parseState |-> backMultiCode]
       ELSE [id |-> idf.id, front |-> idf.front, back |-> trim(s2),
             parseState |-> newCard]

NewLine == <<"\n">>

\* The state of LoadCards between two lines: st.err # "" means LoadCards has
\* returned (nil, err); the cards collected so far are then not returned.
LoadStart ==
    [parseState |-> newCard, cards |-> <<>>, fronts |-> {}, lineNumber |-> 0,
     err |-> ""]

errorWithLineNumber(msg, n) == msg \o " on line " \o ToString(n)

\* return nil, errorWithLineNumber(err, lineNumber), with the cards it held.
FailKeepsCards(st, n, msg) ==
    [st EXCEPT !.lineNumber = n, !.err = errorWithLineNumber(msg, n)]

\* return nil, errorWithLineNumber(err, lineNumber)
Fail(st, n, msg) ==
    [st EXCEPT !.lineNumber = n, !.err = errorWithLineNumber(msg, n), !.cards = <<>>]

\* addCard (the closure of LoadCards) followed by the assignment of parseState
addCard(st, n, id0, front, back, nextState) ==
    LET id == trim(id0)
    IN IF Len(id) = 0 THEN Fail(st, n, "Id can not be the empty string")
       ELSE IF id \in st.fronts THEN Fail(st, n, "Duplicate card id")
       ELSE [st EXCEPT !.lineNumber = n,
                       !.parseState = nextState,
                       !.fronts = st.fronts \cup {id},
                       !.cards = Append(st.cards,
                                        NewCard(id, TRUE, trim(front), trim(back)))]

\* the variant of cards[len(cards)-1] that is the first card of the list.
SetFirst(cs, field, v) == [cs EXCEPT ![1] = [cs[1] EXCEPT ![field] = v]]

SetLast(cs, field, v) == [cs EXCEPT ![Len(cs)] = [cs[Len(cs)] EXCEPT ![field] = v]]

\* a terminal transition out of frontMultiCode that leaves the front as it is.
CloseFenceOmitted(front) == front

\* cards[len(cards)-1].Front += "\n```"
CloseFence(front) == front \o NewLine \o Fence

\* the back of a terminal line of frontMulti taken one character early, with
\* the space that ends the prefix.
frontMultiBackEarly(l) == SubSeq(l, 4, Len(l))

\* back := line[len(" | `"):] in frontMulti: the line after its first four
\* characters
frontMultiBack(l) == SubSeq(l, 5, Len(l))

\* One iteration of the scanner loop of LoadCards on the line l
LoadLine(st, l) ==
    LET n == st.lineNumber + 1
        cs == st.cards
        last == cs[Len(cs)]
        moved(ps, c) == [st EXCEPT !.lineNumber = n, !.parseState = ps, !.cards = c]
    IN
    IF st.parseState = newCard THEN
        IF Len(l) > 0 /\ ~HasPrefix(l, <<"#">>) THEN
            LET sides == Split(l, Delim)
            IN IF Len(sides) = 1 THEN
                    LET r == parseOneSide(sides[1])
                    IN addCard(st, n, r.id, r.front, <<>>, r.parseState)
               ELSE IF Len(sides) = 2 THEN
                    LET r == parseTwoSides(sides[1], sides[2])
                    IN addCard(st, n, r.id, r.front, r.back, r.parseState)
               ELSE Fail(st, n, "Unexpected number of sides")
        ELSE [st EXCEPT !.lineNumber = n]
    ELSE IF Len(cs) = 0 THEN Fail(st, n, "Unexpected number of card")
    ELSE IF st.parseState = frontMulti THEN
        IF l = Tick \o Delim \o Tick THEN moved(backMulti, cs)
        ELSE IF l = Tick \o Delim \o Fence
            THEN moved(backMultiCode, SetLast(cs, "Back", Fence))
        ELSE IF HasPrefix(l, Tick \o Delim)
            THEN moved(newCard, SetLast(cs, "Back", frontMultiBack(l)))
        ELSE IF last.Front = <<>> THEN moved(frontMulti, SetLast(cs, "Front", l))
        ELSE moved(frontMulti, SetLast(cs, "Front", last.Front \o NewLine \o l))
    ELSE IF st.parseState = frontMultiCode THEN
        IF l = Fence \o Delim \o Tick
            THEN moved(backMulti, SetLast(cs, "Front", CloseFence(last.Front)))
        ELSE IF l = Fence \o Delim \o Fence
            THEN moved(backMultiCode,
                       SetLast(SetLast(cs, "Front", CloseFence(last.Front)),
                               "Back", Fence))
        ELSE IF HasPrefix(l, Fence \o Delim)
            THEN moved(newCard,
                       SetLast(SetLast(cs, "Front", CloseFence(last.Front)),
                               "Back", SubSeq(l, 7, Len(l))))
        ELSE moved(frontMultiCode, SetLast(cs, "Front", last.Front \o NewLine \o l))
    ELSE IF st.parseState = backMulti THEN
        IF l = Tick THEN moved(newCard, cs)
        ELSE IF last.Back = <<>> THEN moved(backMulti, SetLast(cs, "Back", l))
        ELSE moved(backMulti, SetLast(cs, "Back", last.Back \o NewLine \o l))
    ELSE \* backMultiCode
        IF l = Fence
            THEN moved(newCard, SetLast(cs, "Back", last.Back \o NewLine \o Fence))
        ELSE moved(backMultiCode, SetLast(cs, "Back", last.Back \o NewLine \o l))

\* The end of the scanner loop without the final check of parseState.
LoadEndAnyState(st) == st

\* The end of the scanner loop: the final check of parseState
LoadEnd(st) ==
    IF st.parseState # newCard
    THEN Fail(st, st.lineNumber, "Invalid parse state")
    ELSE st

RECURSIVE LoadLines(_, _)
LoadLines(st, ls) ==
    IF st.err # "" THEN st
    ELSE IF ls = <<>> THEN LoadEnd(st)
    ELSE LoadLines(LoadLine(st, Head(ls)), Tail(ls))

\* LoadCards on a file that exists and holds the lines ls
LoadCards(ls) == LoadLines(LoadStart, ls)

-----------------------------------------------------------------------------
(* LoadCards, line by line: the lines come from LineSet *)

MaxLines == 3

LineSet ==
    { <<>>,                                                 \* empty line
      <<" ", " ">>,                                         \* spaces only
      <<"#", " ", "a", " ", "|", " ", "b">>,                \* comment
      <<"a">>,
      <<"a", " ", "|", " ", "b">>,
      <<"b", " ", "|", " ", "a", "\t">>,
      <<" ", "|", " ", "b">>,
      <<"a", " ", "|", " ", "b", " ", "|", " ", "a">>,
      <<"[", "x", "]", " ", "a">>,
      <<"[", "x", "]">>,
      <<"[", "]", " ", "a">>,
      <<"[", " ", "]", " ", "a", " ", "|", " ", "b">>,
      <<"[", "x", "]", " ", "a", " ", "|", " ", "b">>,
      <<" ", "[", " ", "x", "\t", "]", "\t", "b", " ", " ", "|", " ", " ", "a", " ">>,
      <<"a", " ", "[", "x", "]", " ", "|", " ", "b">>,
      <<"[", "x", "]", " ", Backquote>>,
      <<"[", "b", "]", " ", Backquote, Backquote, Backquote>>,
      <<"a", " ", "|", " ", Backquote>>,
      <<"[", "x", "]", " ", "a", " ", "|", " ", Backquote, Backquote, Backquote>>,
      Tick, Fence,
      Tick \o Delim \o Tick, Tick \o Delim \o Fence, Tick \o Delim \o <<"b">>,
      Fence \o Delim \o Tick, Fence \o Delim \o Fence, Fence \o Delim \o <<"b">> }

\* No scheduler call is being watched
NoCard == [CorrectCount |-> 0, LastReviewTime |-> ZeroTime]
NoOutcome == [op |-> "none", panic |-> FALSE, interval |-> 0, due |-> FALSE]

SchedIdle == card = NoCard /\ outcome = NoOutcome /\ now = 0

\* No process: no card set, no session, nothing to save, no file
NoSession ==
    [active |-> FALSE, cardSet |-> "", spacedRepetition |-> FALSE, cardType |-> "",
     cardInterval |-> -1, cardsDone |-> {}]
NoPage == [kind |-> "none", text |-> "", md5 |-> <<>>, err |-> "", stats |-> <<>>]

\* no request is being served by a goroutine of its own
NoReview == [pc |-> "idle", md5 |-> <<>>, review |-> ""]
NoSave == [pc |-> "idle", todo |-> {}]
NoRequests == reviewReq = NoReview /\ saveReq = NoSave

\* no handler is being made
FindIdle ==
    /\ rootPath = <<".">>
    /\ cardFiles = [exists |-> FALSE, lines |-> <<>>]
    /\ findStage = "idle"
    /\ paths = <<>>
    /\ walked = 0
    /\ found = <<>>
    /\ findErr = ""
    /\ kept = <<>>

HandlerIdle ==
    /\ disk = <<>>
    /\ up = FALSE
    /\ cardSets = <<>>
    /\ session = NoSession
    /\ save = {}
    /\ page = NoPage
    /\ changes = 0

ParseInit ==
    /\ SchedIdle
    /\ HandlerIdle
    /\ FindIdle
    /\ NoRequests
    /\ parseState = newCard
    /\ cards = <<>>
    /\ fronts = {}
    /\ lineNumber = 0
    /\ line = <<>>
    /\ scanned = <<>>
    /\ loadErr = ""
    /\ returned = FALSE

LoadState ==
    [parseState |-> parseState, cards |-> cards, fronts |-> fronts,
     lineNumber |-> lineNumber, err |-> loadErr]

Becomes(st) ==
    /\ parseState' = st.parseState
    /\ cards' = st.cards
    /\ fronts' = st.fronts
    /\ lineNumber' = st.lineNumber
    /\ loadErr' = st.err

\* scanner.Scan() returns a line and the loop body runs on it
ScanLine(l) ==
    /\ ~returned
    /\ lineNumber < MaxLines
    /\ line' = l
    /\ scanned' = Append(scanned, l)
    /\ Becomes(LoadLine(LoadState, l))
    /\ returned' = (LoadLine(LoadState, l).err # "")
    /\ UNCHANGED <<svars, dvars, cvars, now, hvars>>

\* scanner.Scan() returns false: the end of the file
EndOfFile ==
    /\ ~returned
    /\ Becomes(LoadEnd(LoadState))
    /\ returned' = TRUE
    /\ UNCHANGED <<line, scanned, svars, dvars, cvars, now, hvars>>

ParseNext ==
    \/ \E l \in LineSet : ScanLine(l)
    \/ EndOfFile

SpecParse == ParseInit /\ [][ParseNext]_vars

-----------------------------------------------------------------------------
(* The scheduler on one card: Interval and Due called at any time *)

MaxStreak == 19
MaxNow == 24

\* the streaks tried: every one up to MaxStreak, a negative one and a large one
StreakInputs == (-1..MaxStreak) \cup {1000}

\* the review times tried, in hours: never reviewed, 377 days before the
\* epoch and half a day later, and around the epoch
LastInputs == {ZeroTime, -9048, -9036, -24, 0, 12, 36}

ParseIdle ==
    /\ parseState = newCard
    /\ cards = <<>>
    /\ fronts = {}
    /\ lineNumber = 0
    /\ line = <<>>
    /\ scanned = <<>>
    /\ loadErr = ""
    /\ returned = FALSE

SchedInit ==
    /\ ParseIdle
    /\ HandlerIdle
    /\ FindIdle
    /\ NoRequests
    /\ card \in [CorrectCount : StreakInputs, LastReviewTime : LastInputs]
    /\ outcome = NoOutcome
    /\ now = 0

CallInterval ==
    /\ outcome' = IF IntervalPanics(card)
                  THEN [op |-> "Interval", panic |-> TRUE, interval |-> 0, due |-> FALSE]
                  ELSE [op |-> "Interval", panic |-> FALSE,
                        interval |-> Interval(card), due |-> FALSE]
    /\ UNCHANGED <<pvars, dvars, cvars, card, now, hvars>>

CallDue ==
    /\ outcome' = IF IntervalPanics(card)
                  THEN [op |-> "Due", panic |-> TRUE, interval |-> 0, due |-> FALSE]
                  ELSE [op |-> "Due", panic |-> FALSE,
                        interval |-> Interval(card), due |-> Due(card, now)]
    /\ UNCHANGED <<pvars, dvars, cvars, card, now, hvars>>

\* time passes: one day
TimePasses ==
    /\ now + 24 <= MaxNow
    /\ now' = now + 24
    /\ outcome' = NoOutcome
    /\ UNCHANGED <<pvars, dvars, cvars, card, hvars>>

SchedNext == CallInterval \/ CallDue \/ TimePasses

SpecSched == SchedInit /\ [][SchedNext]_vars

-----------------------------------------------------------------------------
(* Progress store: the text of a progress file, LoadCardData, SaveCardData *)

\* Intervals' longest interval before the start of the clock, in hours
LongAgo == 0 - Intervals[Len(Intervals)] * 24

\* the instants a progress file of the model can hold
TimeDomain == {ZeroTime, LongAgo} \cup (-48..MaxNow)

\* the streaks a progress file of the model can hold
CountDomain == -1..(MaxStreak + 1)

\* Time.MarshalText: the RFC 3339 text of the instant (one token: it holds
\* neither a space nor a bar)
MarshalText(t) == "T" \o ToString(t)

\* Time.UnmarshalText on a field: the instant, or an error
UnmarshalOk(f) == Len(f) = 1 /\ \E t \in TimeDomain : MarshalText(t) = f[1]
UnmarshalText(f) == CHOOSE t \in TimeDomain : MarshalText(t) = f[1]

\* the %d verb of fmt.Sprintf (one token)
FormatInt(n) == ToString(n)

\* strconv.Atoi on a field: the integer, or an error
AtoiOk(f) == Len(f) = 1 /\ \E n \in CountDomain : FormatInt(n) = f[1]
Atoi(f) == CHOOSE n \in CountDomain : FormatInt(n) = f[1]

\* fmt.Sprintf("%s | %s | %d\n", card.Id, lastReviewTime, card.CorrectCount),
\* without the line end
DataLine(id, t, n) == id \o Delim \o <<MarshalText(t)>> \o Delim \o <<FormatInt(n)>>

\* a progress file that does not exist
NoFile == [exists |-> FALSE, lines |-> <<>>]
File(ls) == [exists |-> TRUE, lines |-> ls]

\* the search of LoadCardData that finds no card.
FindCardNone(cs, id, i) == 0

\* the position of the first card with this id, 0 when there is none
RECURSIVE FindCard(_, _, _)
FindCard(cs, id, i) ==
    IF i > Len(cs) THEN 0
    ELSE IF cs[i].Id = id THEN i
    ELSE FindCard(cs, id, i + 1)

\* LoadCardData that appends a card for every record, found or not.
RECURSIVE LoadDataLinesAppend(_, _)
LoadDataLinesAppend(cs, ls) ==
    IF ls = <<>> THEN [cards |-> cs, err |-> ""]
    ELSE LET data == Split(Head(ls), Delim)
         IN IF Len(data) # 3
            THEN [cards |-> <<>>, err |-> "Invalid line found in card data"]
            ELSE IF ~UnmarshalOk(data[2]) THEN [cards |-> <<>>, err |-> "parsing time"]
            ELSE IF ~AtoiOk(data[3]) THEN [cards |-> <<>>, err |-> "strconv.Atoi"]
            ELSE LoadDataLinesAppend(
                    Append(cs, NewCardStats(data[1], UnmarshalText(data[2]),
                                            Atoi(data[3]))),
                    Tail(ls))

\* The scanner loop of LoadCardData on the lines ls, the cards so far being cs
RECURSIVE LoadDataLines(_, _)
LoadDataLines(cs, ls) ==
    IF ls = <<>> THEN [cards |-> cs, err |-> ""]
    ELSE LET data == Split(Head(ls), Delim)
         IN IF Len(data) # 3
            THEN [cards |-> <<>>, err |-> "Invalid line found in card data"]
            ELSE IF ~UnmarshalOk(data[2]) THEN [cards |-> <<>>, err |-> "parsing time"]
            ELSE IF ~AtoiOk(data[3]) THEN [cards |-> <<>>, err |-> "strconv.Atoi"]
            ELSE LET id == data[1]
                     t == UnmarshalText(data[2])
                     n == Atoi(data[3])
                     i == FindCard(cs, id, 1)
                 IN IF i > 0
                    THEN LoadDataLines(
                            [cs EXCEPT ![i] = [cs[i] EXCEPT !.CorrectCount = n,
                                                            !.LastReviewTime = t]],
                            Tail(ls))
                    ELSE LoadDataLines(Append(cs, NewCardStats(id, t, n)), Tail(ls))

\* LoadCardData to which a file that does not exist is an error.
LoadCardDataStrict(file, cs) ==
    IF ~file.exists THEN [cards |-> <<>>, err |-> "no such file or directory"]
    ELSE LoadDataLines(cs, file.lines)

\* LoadCardData: a file that does not exist leaves the cards as they are
LoadCardData(file, cs) ==
    IF ~file.exists THEN [cards |-> cs, err |-> ""]
    ELSE LoadDataLines(cs, file.lines)

\* CardSet.Load that returns the defined cards when the progress file is bad.
LoadLenient(defLines, file) ==
    LET parsed == LoadCards(defLines)
    IN IF parsed.err # "" THEN [cards |-> <<>>, err |-> parsed.err]
       ELSE IF LoadCardData(file, parsed.cards).err # ""
       THEN [cards |-> parsed.cards, err |-> ""]
       ELSE LoadCardData(file, parsed.cards)

\* CardSet.Load on a card file holding the lines defLines: cs.Cards and the error
Load(defLines, file) ==
    LET parsed == LoadCards(defLines)
    IN IF parsed.err # "" THEN [cards |-> <<>>, err |-> parsed.err]
       ELSE LoadCardData(file, parsed.cards)

\* SaveCardData that skips no card.
RECURSIVE SaveLinesAll(_, _)
SaveLinesAll(cs, clean) ==
    IF cs = <<>> THEN <<>>
    ELSE <<DataLine(Head(cs).Id, Head(cs).LastReviewTime, Head(cs).CorrectCount)>>
            \o SaveLinesAll(Tail(cs), clean)

\* The lines SaveCardData writes
RECURSIVE SaveLines(_, _)
SaveLines(cs, clean) ==
    IF cs = <<>> THEN <<>>
    ELSE IF clean /\ ~Head(cs).InCardFile THEN SaveLines(Tail(cs), clean)
    ELSE <<DataLine(Head(cs).Id, Head(cs).LastReviewTime, Head(cs).CorrectCount)>>
            \o SaveLines(Tail(cs), clean)

\* SaveCardData: os.Create and one line per card kept
SaveCardData(cs, clean) == File(SaveLines(cs, clean))

-----------------------------------------------------------------------------
(* Selections of cards (pkg/gocards) and getCards (cmd/gocards.go) *)

Blank(c) == c.Front = <<>> \/ c.Back = <<>>

\* GetDueCards, GetDueOrNewCards and GetIntervalCards call Interval on every
\* card that is not blank: the call panics when one of them panics
SelectionPanics(cs) == \E i \in 1..Len(cs) : ~Blank(cs[i]) /\ IntervalPanics(cs[i])

GetDueCards(cs, t) == SelectSeq(cs, LAMBDA c : ~Blank(c) /\ Due(c, t))

\* GetDueOrNewCards that leaves the new cards out.
GetDueOrNewCardsDueOnly(cs, t) == GetDueCards(cs, t)

GetDueOrNewCards(cs, t) ==
    SelectSeq(cs, LAMBDA c : ~Blank(c) /\ ~(Interval(c) > 0 /\ ~Due(c, t)))

GetIntervalCards(cs, interval) ==
    SelectSeq(cs, LAMBDA c : ~Blank(c) /\ interval = Interval(c))

\* removeCardsDone that removes no card.
removeCardsDoneNone(cs, done) == cs

removeCardsDone(cs, done) == SelectSeq(cs, LAMBDA c : c.Md5 \notin done)

\* getCards returns the selection as it is when it holds at most 10 cards
PageSize == 10

RECURSIVE MaxCorrectCount(_, _)
MaxCorrectCount(cs, m) ==
    IF cs = <<>> THEN m
    ELSE MaxCorrectCount(Tail(cs), IF Head(cs).CorrectCount > m
                                   THEN Head(cs).CorrectCount ELSE m)

\* the inner loop of getCards: the cards of streak n, until 10 are taken
RECURSIVE TakeEqual(_, _, _, _)
TakeEqual(subset, cs, i, n) ==
    IF i > Len(cs) THEN subset
    ELSE LET sub2 == IF cs[i].CorrectCount = n THEN Append(subset, cs[i]) ELSE subset
         IN IF Len(sub2) >= PageSize THEN sub2 ELSE TakeEqual(sub2, cs, i + 1, n)

\* the outer loop of getCards: streaks from the highest down to 0
RECURSIVE TakeDown(_, _, _)
TakeDown(subset, cs, n) ==
    IF ~(Len(subset) < PageSize) THEN subset
    ELSE LET sub2 == TakeEqual(subset, cs, 1, n)
         IN IF n - 1 < 0 THEN sub2 ELSE TakeDown(sub2, cs, n - 1)

cardSubset(cs) ==
    IF Len(cs) <= PageSize THEN cs ELSE TakeDown(<<>>, cs, MaxCorrectCount(cs, 0))

\* getCards panics when the selection of the session's type does
GetCardsPanics(sess, sets) ==
    sess.cardType # "all" /\ SelectionPanics(sets[sess.cardSet])

\* the cards getCards selects for the session's type, at the instant t
Selection(sess, sets, t) ==
    LET cs == sets[sess.cardSet]
    IN IF sess.cardType = "all" THEN removeCardsDone(cs, sess.cardsDone)
       ELSE IF sess.cardType = "due_new" THEN GetDueOrNewCards(cs, t)
       ELSE IF sess.cardType = "due" THEN GetDueCards(cs, t)
       ELSE IF sess.cardType = "new" THEN GetIntervalCards(cs, 0)
       ELSE removeCardsDone(GetIntervalCards(cs, sess.cardInterval), sess.cardsDone)

\* getCards for an active session, at the instant t
getCards(sess, sets, t) == cardSubset(Selection(sess, sets, t))

-----------------------------------------------------------------------------
(* The HTTP handler (cmd/gocards.go) *)

\* the card sets found under the root path, by id, and their card files
SetIds == {"a.cd", "b.cd"}

DefLines(id) ==
    IF id = "a.cd"
    THEN << <<"a", " ", "|", " ", "b">>,
            <<"[", "x", "]", " ", "b", " ", "|", " ", "a">> >>
    ELSE << <<"[", "a", " ", "|", "]", " ", "a", " ", "|", " ", "b">>,
            <<"b">> >>

\* the progress files a.cd can have when the program starts
InitialData ==
    { NoFile,
      File(<< DataLine(<<"a">>, 0, 2), DataLine(<<"x">>, -24, 3),
              DataLine(<<"z">>, 0, 1), DataLine(<<"z">>, 24, 2) >>),
      File(<< DataLine(<<"a">>, 0, 16) >>),
      File(<< DataLine(<<"a">>, 0, -1) >>),
      File(<< DataLine(<<"z">>, 0, 1), <<"a", " ", "|", " ", "b">> >>),
      File(<< DataLine(<<"a">>, 0, 2), <<"x", " ", "|", " ", "?", " ", "|", " ", "1">> >>),
      File(<< DataLine(<<"a">>, 0, 2),
              <<"x", " ", "|", " ", MarshalText(0), " ", "|", " ", "?">> >>) }

\* LoadCardSets: every card set loaded, or the first error
LoadAll(d) == [id \in SetIds |-> Load(DefLines(id), d[id])]
LoadedOk(d) == \A id \in SetIds : LoadAll(d)[id].err = ""

\* the card sets in the order filepath.Walk finds them, and the error
\* LoadCardSets returns: the one of the first card set that fails to load
SetOrder == <<"a.cd", "b.cd">>
LoadError(d) ==
    LoadAll(d)[SetOrder[CHOOSE k \in 1..Len(SetOrder) :
                            /\ LoadAll(d)[SetOrder[k]].err # ""
                            /\ \A m \in 1..(k - 1) : LoadAll(d)[SetOrder[m]].err = ""]].err

\* the files gocards --clean can be given: the card files, and one that is
\* not there
CleanIds == SetIds \cup {"none.cd"}
CardFile(id) == IF id \in SetIds THEN File(DefLines(id)) ELSE NoFile
DataFile(d, id) == IF id \in DOMAIN d THEN d[id] ELSE NoFile

\* LoadCardsAndData: os.Open fails on a card file that is not there
LoadCardsAndData(cardFile, dataFile) ==
    IF ~cardFile.exists
    THEN [cards |-> <<>>, err |-> "Unable to load card set: no such file or directory"]
    ELSE LET parsed == LoadCards(cardFile.lines)
             merged == LoadCardData(dataFile, parsed.cards)
         IN IF parsed.err # ""
            THEN [cards |-> <<>>, err |-> "Unable to load card set: " \o parsed.err]
            ELSE IF merged.err # ""
            THEN [cards |-> <<>>, err |-> "Unable to load card set data: " \o merged.err]
            ELSE merged

\* strings.Join
RECURSIVE Join(_, _)
Join(parts, sep) ==
    IF parts = <<>> THEN ""
    ELSE IF Len(parts) = 1 THEN parts[1]
    ELSE parts[1] \o sep \o Join(Tail(parts), sep)

isInt(seg) == AtoiOk(<<seg>>)

\* parseCardSetUrl on the path split at its slashes
parseCardSetUrl(parts) ==
    LET lastPart == parts[Len(parts)]
        front == Join(SubSeq(parts, 1, Len(parts) - 1), "/")
    IN IF lastPart = "all"
       THEN [cardSetId |-> front, spacedRepetition |-> FALSE, cardType |-> "all",
             cardInterval |-> -1]
       ELSE IF lastPart = "new"
       THEN [cardSetId |-> front, spacedRepetition |-> TRUE, cardType |-> "new",
             cardInterval |-> -1]
       ELSE IF lastPart = "due"
       THEN [cardSetId |-> front, spacedRepetition |-> TRUE, cardType |-> "due",
             cardInterval |-> -1]
       ELSE IF isInt(lastPart)
       THEN [cardSetId |-> front, spacedRepetition |-> FALSE, cardType |-> "",
             cardInterval |-> Atoi(<<lastPart>>)]
       ELSE [cardSetId |-> Join(parts, "/"), spacedRepetition |-> TRUE,
             cardType |-> "due_new", cardInterval |-> -1]

\* the request paths tried
Paths ==
    { <<"a.cd">>, <<"a.cd", "all">>, <<"a.cd", "new">>, <<"a.cd", "due">>,
      <<"a.cd", "1">>, <<"b.cd">>, <<"b.cd", "all">>, <<"nope.cd">> }

\* what a response can hold
Msg(text) == [kind |-> "message", text |-> text, md5 |-> <<>>, err |-> "", stats |-> <<>>]
FrontPage(md5) == [kind |-> "front", text |-> "", md5 |-> md5, err |-> "", stats |-> <<>>]
BackPage(md5) == [kind |-> "back", text |-> "", md5 |-> md5, err |-> "", stats |-> <<>>]
\* the main page shows, for every card set, the statistics of the set
MainPage(stats) == [kind |-> "main", text |-> "", md5 |-> <<>>, err |-> "", stats |-> stats]
PanicPage == [kind |-> "panic", text |-> "", md5 |-> <<>>, err |-> "", stats |-> <<>>]

\* the tail of httpHandler.cardSet: getCards, then getCard draws one at random
CardPages(sess, sets, t) ==
    IF ~sess.active THEN {Msg("Session not defined")}
    ELSE IF GetCardsPanics(sess, sets) THEN {PanicPage}
    ELSE LET cs == getCards(sess, sets, t)
         IN IF Len(cs) = 0 THEN {Msg("No cards found")}
            ELSE {FrontPage(cs[i].Md5) : i \in 1..Len(cs)}

\* populateCardSetSession on a GET: the session after it
populateCardSetSession(parts, sess, sets) ==
    LET u == parseCardSetUrl(parts)
    IN IF u.cardSetId \in DOMAIN sets
       THEN [active |-> TRUE, cardSet |-> u.cardSetId,
             spacedRepetition |-> u.spacedRepetition, cardType |-> u.cardType,
             cardInterval |-> u.cardInterval, cardsDone |-> {}]
       ELSE sess

\* GET of a card set path: httpHandler.cardSet. An unknown card set writes
\* its error and the handler goes on with the session it had.
GetCardSet(parts) ==
    /\ up
    /\ session' = populateCardSetSession(parts, session, cardSets)
    /\ \E pg \in CardPages(session', cardSets, now) :
          page' = [pg EXCEPT !.err = IF parseCardSetUrl(parts).cardSetId \in DOMAIN cardSets
                                     THEN "" ELSE "Invalid card set"]
    /\ UNCHANGED <<pvars, dvars, cvars, svars, now, disk, up, cardSets, save, changes>>

\* the changes recorded and the runs of gocards --clean, together
MaxChanges == 1

RECURSIVE FindMd5(_, _, _)
FindMd5(cs, md5, i) ==
    IF i > Len(cs) THEN 0
    ELSE IF cs[i].Md5 = md5 THEN i
    ELSE FindMd5(cs, md5, i + 1)

\* parseCardSetPost: the error it returns, "" when it returns the card
parseCardSetPost(sess, sets, action, md5) ==
    IF ~sess.active THEN "Session not defined"
    ELSE IF action = "" THEN "Action not defined"
    ELSE IF md5 = <<>> THEN "MD5 not defined"
    ELSE IF FindMd5(sets[sess.cardSet], md5, 1) = 0 THEN "Invalid MD5"
    ELSE ""

\* what handleCardSetPost leaves behind: the error it returns, whether it
\* returns the closure that shows the back, whether it panicked, and the
\* handler's fields
Handled(err, back, panic, recorded, sess, sets, sv) ==
    [err |-> err, back |-> back, panic |-> panic, recorded |-> recorded,
     session |-> sess, cardSets |-> sets, save |-> sv]

\* handleCardSetPost in which a correct answer restarts the streak at 1.
handleCardSetPostRestart(sess, sets, sv, t, action, md5, review) ==
    IF parseCardSetPost(sess, sets, action, md5) # ""
    THEN Handled(parseCardSetPost(sess, sets, action, md5), FALSE, FALSE, FALSE,
                 sess, sets, sv)
    ELSE LET id == sess.cardSet
             i == FindMd5(sets[id], md5, 1)
             c == sets[id][i]
             with(c2) == [sets EXCEPT ![id] = [sets[id] EXCEPT ![i] = c2]]
         IN IF action = "review" /\ review \in {"correct", "incorrect"}
               /\ sess.spacedRepetition
            THEN Handled("", FALSE, FALSE, TRUE, sess,
                         with([c EXCEPT !.LastReviewTime = t,
                                        !.CorrectCount = IF review = "correct"
                                                         THEN 1 ELSE 0]),
                         sv \cup {id})
            ELSE Handled("", action = "back", FALSE, FALSE, sess, sets, sv)

\* handleCardSetPost that records a review in a drill session too.
handleCardSetPostAlways(sess, sets, sv, t, action, md5, review) ==
    IF parseCardSetPost(sess, sets, action, md5) # ""
    THEN Handled(parseCardSetPost(sess, sets, action, md5), FALSE, FALSE, FALSE,
                 sess, sets, sv)
    ELSE LET id == sess.cardSet
             i == FindMd5(sets[id], md5, 1)
             c == sets[id][i]
             with(c2) == [sets EXCEPT ![id] = [sets[id] EXCEPT ![i] = c2]]
         IN IF action = "review" /\ review \in {"correct", "incorrect"}
            THEN Handled("", FALSE, FALSE, TRUE, sess,
                         with([c EXCEPT !.LastReviewTime = t,
                                        !.CorrectCount = IF review = "correct"
                                                         THEN @ + 1 ELSE 0]),
                         sv \cup {id})
            ELSE Handled("", action = "back", FALSE, FALSE, sess, sets, sv)

\* handleCardSetPost that takes an unknown review value for a skip.
handleCardSetPostLenient(sess, sets, sv, t, action, md5, review) ==
    IF parseCardSetPost(sess, sets, action, md5) # ""
    THEN Handled(parseCardSetPost(sess, sets, action, md5), FALSE, FALSE, FALSE,
                 sess, sets, sv)
    ELSE LET id == sess.cardSet
             i == FindMd5(sets[id], md5, 1)
             c == sets[id][i]
             with(c2) == [sets EXCEPT ![id] = [sets[id] EXCEPT ![i] = c2]]
             done == [sess EXCEPT !.cardsDone = @ \cup {c.Md5}]
             right == [c EXCEPT !.LastReviewTime = t, !.CorrectCount = @ + 1]
             wrong == [c EXCEPT !.LastReviewTime = t, !.CorrectCount = 0]
         IN IF action = "back" THEN Handled("", TRUE, FALSE, FALSE, sess, sets, sv)
            ELSE IF action = "review" THEN
                IF review = "correct" THEN
                    IF sess.spacedRepetition
                    THEN \* card.Interval() panics after the card was updated
                         IF IntervalPanics(right)
                         THEN Handled("", FALSE, TRUE, TRUE, sess, with(right),
                                      sv \cup {id})
                         ELSE Handled("", FALSE, FALSE, TRUE,
                                      IF Interval(right) > 0 THEN done ELSE sess,
                                      with(right), sv \cup {id})
                    ELSE Handled("", FALSE, FALSE, FALSE, done, sets, sv)
                ELSE IF review = "incorrect" THEN
                    IF sess.spacedRepetition
                    THEN Handled("", FALSE, FALSE, TRUE, sess, with(wrong), sv \cup {id})
                    ELSE Handled("", FALSE, FALSE, FALSE, sess, sets, sv)
                ELSE Handled("", FALSE, FALSE, FALSE, sess, sets, sv)
            ELSE IF action = "skip" THEN Handled("", FALSE, FALSE, FALSE, sess, sets, sv)
            ELSE Handled("Invalid action", FALSE, FALSE, FALSE, sess, sets, sv)

\* handleCardSetPost on a POST, at the instant t = time.Now()
handleCardSetPost(sess, sets, sv, t, action, md5, review) ==
    IF parseCardSetPost(sess, sets, action, md5) # ""
    THEN Handled(parseCardSetPost(sess, sets, action, md5), FALSE, FALSE, FALSE,
                 sess, sets, sv)
    ELSE LET id == sess.cardSet
             i == FindMd5(sets[id], md5, 1)
             c == sets[id][i]
             with(c2) == [sets EXCEPT ![id] = [sets[id] EXCEPT ![i] = c2]]
             done == [sess EXCEPT !.cardsDone = @ \cup {c.Md5}]
             right == [c EXCEPT !.LastReviewTime = t, !.CorrectCount = @ + 1]
             wrong == [c EXCEPT !.LastReviewTime = t, !.CorrectCount = 0]
         IN IF action = "back" THEN Handled("", TRUE, FALSE, FALSE, sess, sets, sv)
            ELSE IF action = "review" THEN
                IF review = "correct" THEN
                    IF sess.spacedRepetition
                    THEN \* card.Interval() panics after the card was updated
                         IF IntervalPanics(right)
                         THEN Handled("", FALSE, TRUE, TRUE, sess, with(right),
                                      sv \cup {id})
                         ELSE Handled("", FALSE, FALSE, TRUE,
                                      IF Interval(right) > 0 THEN done ELSE sess,
                                      with(right), sv \cup {id})
                    ELSE Handled("", FALSE, FALSE, FALSE, done, sets, sv)
                ELSE IF review = "incorrect" THEN
                    IF sess.spacedRepetition
                    THEN Handled("", FALSE, FALSE, TRUE, sess, with(wrong), sv \cup {id})
                    ELSE Handled("", FALSE, FALSE, FALSE, sess, sets, sv)
                ELSE IF review = "skip"
                    THEN Handled("", FALSE, FALSE, FALSE, sess, sets, sv)
                ELSE Handled("Inavlid review", FALSE, FALSE, FALSE, sess, sets, sv)
            ELSE IF action = "skip" THEN Handled("", FALSE, FALSE, FALSE, sess, sets, sv)
            ELSE Handled("Invalid action", FALSE, FALSE, FALSE, sess, sets, sv)

\* the form values tried
Actions == {"", "back", "review", "skip", "bogus"}
ReviewValues(action) ==
    IF action = "review" THEN {"correct", "incorrect", "skip", "bogus"} ELSE {""}
Md5Values ==
    {<<>>, Md5Sum(<<"?">>)}
        \cup IF session.active
             THEN {cardSets[session.cardSet][i].Md5 : i \in 1..Len(cardSets[session.cardSet])}
             ELSE {}

\* POST of a card set path: httpHandler.cardSet. On a POST the path is only
\* parsed, which cannot fail, and the session is left as it is: the card is
\* looked up in the session's card set, whatever the path.
Responded(r, md5) ==
    /\ cardSets' = r.cardSets
    /\ session' = r.session
    /\ save' = r.save
    /\ page' \in IF r.err # "" THEN {Msg(r.err)}
                 ELSE IF r.back THEN {BackPage(md5)}
                 ELSE IF r.panic THEN {PanicPage}
                 ELSE CardPages(r.session, r.cardSets, now)

PostCardSet(action, md5, review) ==
    /\ up
    /\ \E r \in {handleCardSetPost(session, cardSets, save, now, action, md5, review)} :
          /\ r.recorded => changes < MaxChanges
          /\ changes' = IF r.recorded THEN changes + 1 ELSE changes
          /\ Responded(r, md5)
    /\ UNCHANGED <<pvars, dvars, cvars, svars, now, disk, up>>

\* the POST sent to the path parts: populateCardSetSession parses the path
\* and, the method being POST, does nothing with what it parsed
PostCardSetTo(parts, action, md5, review) == PostCardSet(action, md5, review)

\* CardSet.Stats calls Due on every card of the file that is not blank
StatsPanics(cs) ==
    \E i \in 1..Len(cs) : cs[i].InCardFile /\ ~Blank(cs[i]) /\ IntervalPanics(cs[i])

\* NewCardSetStats
NewCardSetStats ==
    [TotalCount |-> 0, CardCount |-> 0, OldCount |-> 0, BlankCount |-> 0,
     NewCount |-> 0, DueCount |-> 0, IntervalCount |-> <<>>]

\* the loop of CardSet.Stats that puts the cards missing from the card file
\* in the buckets too.
RECURSIVE StatsLoopNoSkip(_, _, _)
StatsLoopNoSkip(stats, cs, t) ==
    IF cs = <<>> THEN stats
    ELSE LET c == Head(cs)
             s1 == [stats EXCEPT !.TotalCount = @ + 1]
             s2 == IF c.InCardFile THEN [s1 EXCEPT !.CardCount = @ + 1]
                   ELSE [s1 EXCEPT !.OldCount = @ + 1]
         IN IF Blank(c)
            THEN StatsLoopNoSkip([s2 EXCEPT !.BlankCount = @ + 1], Tail(cs), t)
            ELSE LET interval == Interval(c)
                     s3 == [s2 EXCEPT !.IntervalCount =
                                IF interval \in DOMAIN @
                                THEN [@ EXCEPT ![interval] = @ + 1]
                                ELSE @ @@ (interval :> 1)]
                 IN StatsLoopNoSkip(
                        IF interval = 0 THEN [s3 EXCEPT !.NewCount = @ + 1]
                        ELSE IF Due(c, t) THEN [s3 EXCEPT !.DueCount = @ + 1]
                        ELSE s3,
                        Tail(cs), t)

\* the loop of CardSet.Stats over the cards cs, at the instant t
RECURSIVE StatsLoop(_, _, _)
StatsLoop(stats, cs, t) ==
    IF cs = <<>> THEN stats
    ELSE LET c == Head(cs)
             s1 == [stats EXCEPT !.TotalCount = @ + 1]
         IN IF ~c.InCardFile
            THEN StatsLoop([s1 EXCEPT !.OldCount = @ + 1], Tail(cs), t)
            ELSE LET s2 == [s1 EXCEPT !.CardCount = @ + 1]
                 IN IF Blank(c)
                    THEN StatsLoop([s2 EXCEPT !.BlankCount = @ + 1], Tail(cs), t)
                    ELSE LET interval == Interval(c)
                             s3 == [s2 EXCEPT !.IntervalCount =
                                        IF interval \in DOMAIN @
                                        THEN [@ EXCEPT ![interval] = @ + 1]
                                        ELSE @ @@ (interval :> 1)]
                         IN StatsLoop(
                                IF interval = 0 THEN [s3 EXCEPT !.NewCount = @ + 1]
                                ELSE IF Due(c, t) THEN [s3 EXCEPT !.DueCount = @ + 1]
                                ELSE s3,
                                Tail(cs), t)

\* CardSet.Stats without the continue after OldCount.
StatsNoSkip(cs, t) == StatsLoopNoSkip(NewCardSetStats, cs, t)

\* CardSet.Stats
Stats(cs, t) == StatsLoop(NewCardSetStats, cs, t)

\* pageMain: the statistics of every card set, at the instant t
pageMain(sets, t) ==
    IF \E id \in DOMAIN sets : StatsPanics(sets[id]) THEN PanicPage
    ELSE MainPage([id \in DOMAIN sets |-> Stats(sets[id], t)])

\* saveCardSets: SaveData(false) for every card set of h.save
saveCardSets(d, sets, sv) ==
    [id \in SetIds |-> IF id \in sv THEN SaveCardData(sets[id], FALSE) ELSE d[id]]

\* GET of the path /
GetMain ==
    /\ up
    /\ page' = pageMain(cardSets, now)
    /\ UNCHANGED <<pvars, dvars, cvars, svars, now, disk, up, cardSets, session, save, changes>>

\* h.save after saveCardSets, which wrote the card sets `written`, always
\* emptied
saveAfterReset(sv, written) == {}

\* h.save after saveCardSets, which wrote the card sets `written`: emptied
\* when every card set of h.save was written, left as it was when a save
\* failed and saveCardSets returned the error
saveAfter(sv, written) == IF written = sv THEN {} ELSE sv

\* POST /: the update action saves the card sets of h.save, in the order the
\* range over the map takes; a save that fails (MkdirAll or os.Create
\* returns an error, the file stays as it was) ends saveCardSets, and the
\* card sets before it are written
PostMain(action) ==
    /\ up
    /\ IF action = "update"
       THEN \E written \in SUBSET save :
              /\ save' = saveAfter(save, written)
              /\ IF written = save
                 THEN /\ disk' = saveCardSets(disk, cardSets, save)
                      /\ page' = pageMain(cardSets, now)
                 ELSE /\ disk' = saveCardSets(disk, cardSets, written)
                      /\ page' = Msg("Unable to save card sets")
       ELSE /\ page' = IF action = "" THEN Msg("Action not defined")
                       ELSE IF action = "main" THEN pageMain(cardSets, now)
                       ELSE Msg("Invalid action")
            /\ UNCHANGED <<disk, save>>
    /\ UNCHANGED <<pvars, dvars, cvars, svars, now, up, cardSets, session, changes>>

\* gocards --http is run: newHttpHandler loads every card set, and there is
\* no handler when a load fails
Start ==
    /\ ~up
    /\ up' = LoadedOk(disk)
    /\ cardSets' = IF LoadedOk(disk) THEN [id \in SetIds |-> LoadAll(disk)[id].cards]
                   ELSE <<>>
    /\ session' = NoSession
    /\ save' = {}
    /\ page' = IF LoadedOk(disk) THEN NoPage ELSE Msg(LoadError(disk))
    /\ UNCHANGED <<pvars, dvars, cvars, svars, now, disk, changes>>

\* the process is ended: what it held in memory is gone
Stop ==
    /\ up
    /\ up' = FALSE
    /\ cardSets' = <<>>
    /\ session' = NoSession
    /\ save' = {}
    /\ page' = NoPage
    /\ UNCHANGED <<pvars, dvars, cvars, svars, now, disk, changes>>

\* gocards --clean --file id, run while no server is: mainClean loads the
\* card set from its files and saves it with clean = true, or returns the
\* error of the load, which main prints
Clean(id) ==
    /\ ~up
    /\ \E loaded \in {LoadCardsAndData(CardFile(id), DataFile(disk, id))} :
          IF loaded.err # ""
          THEN /\ page' = Msg(loaded.err)
               /\ UNCHANGED <<disk, changes>>
          ELSE /\ changes < MaxChanges
               /\ changes' = changes + 1
               /\ disk' = [disk EXCEPT ![id] = SaveCardData(loaded.cards, TRUE)]
               /\ page' = NoPage
    /\ UNCHANGED <<pvars, dvars, cvars, svars, now, up, cardSets, session, save>>

\* the files are there and nothing runs
Init ==
    /\ ParseIdle
    /\ SchedIdle
    /\ FindIdle
    /\ NoRequests
    /\ disk \in [SetIds -> InitialData]
    /\ disk["b.cd"] = NoFile
    /\ up = FALSE
    /\ cardSets = <<>>
    /\ session = NoSession
    /\ save = {}
    /\ page = NoPage
    /\ changes = 0

Next ==
    \/ \E parts \in Paths : GetCardSet(parts)
    \/ \E action \in Actions, md5 \in Md5Values :
            \E review \in ReviewValues(action) : PostCardSet(action, md5, review)
    \/ GetMain
    \/ \E action \in {"", "update", "main", "bogus"} : PostMain(action)
    \/ Start
    \/ Stop
    \/ \E id \in CleanIds : Clean(id)
    \/ TimePasses

Spec == Init /\ [][Next]_vars

-----------------------------------------------------------------------------
(* A user who follows the links of the main page and answers: the quick start
   of the README, on card sets with and without progress *)

\* the progress files a.cd can have when the user starts: none (every card
\* is new), one with a new card and a card that is due, and two with a card
\* of streak 16, due and not due
QuickData ==
    { NoFile,
      File(<< DataLine(<<"a">>, 0, 2), DataLine(<<"x">>, -24, 3) >>),
      File(<< DataLine(<<"a">>, LongAgo, 16) >>),
      File(<< DataLine(<<"a">>, 0, 16) >>) }

\* the links of the main page the user follows: the card set (cards due or
\* new), its all link and the link of the interval of 1 day
QuickPaths ==
    { <<"a.cd">>, <<"b.cd">>, <<"a.cd", "all">>, <<"b.cd", "all">>, <<"a.cd", "1">> }

QuickInit ==
    /\ ParseIdle
    /\ SchedIdle
    /\ FindIdle
    /\ NoRequests
    /\ disk \in [SetIds -> QuickData]
    /\ disk["b.cd"] = NoFile
    /\ up = FALSE
    /\ cardSets = <<>>
    /\ session = NoSession
    /\ save = {}
    /\ page = NoPage
    /\ changes = 0

\* the user clicks on a link of the main page
OpenSession(parts) ==
    /\ page.kind \in {"none", "main"}
    /\ GetCardSet(parts)

\* httpHandler.cardSet on the POST of a form of the page shown
Answer(action, review) ==
    /\ up
    /\ \E r \in {handleCardSetPost(session, cardSets, save, now, action, page.md5, review)} :
          Responded(r, page.md5)
    /\ UNCHANGED <<pvars, dvars, cvars, svars, now, disk, up, changes>>

\* the button show other side of the page of a front
ShowOtherSide ==
    /\ page.kind = "front"
    /\ Answer("back", "")

\* the button correct of the page of a back
AnswerCorrect ==
    /\ page.kind = "back"
    /\ Answer("review", "correct")

\* the buttons incorrect and skip of the page of a back, which the user
\* clicks in the sessions of the all and interval links only
AnswerOther(review) ==
    /\ page.kind = "back"
    /\ ~session.spacedRepetition
    /\ Answer("review", review)

\* the button main, clicked when the session has no card left or the save
\* failed
ClickMain ==
    /\ page \in {Msg("No cards found"), Msg("Unable to save card sets")}
    /\ PostMain("main")

\* the button Update of the main page
ClickSave ==
    /\ page.kind = "main"
    /\ save # {}
    /\ PostMain("update")

QuickNext ==
    \/ Start
    \/ \E parts \in QuickPaths : OpenSession(parts)
    \/ ShowOtherSide
    \/ AnswerCorrect
    \/ \E review \in {"incorrect", "skip"} : AnswerOther(review)
    \/ ClickMain
    \/ ClickSave

\* the user who is shown a card goes on to its other side and answers
\* correct
SpecQuick ==
    QuickInit /\ [][QuickNext]_vars /\ WF_vars(ShowOtherSide) /\ WF_vars(AnswerCorrect)

-----------------------------------------------------------------------------
(* Two requests at once. http.ListenAndServe serves every connection in a
   goroutine of its own and httpHandler holds no lock: the statements of
   handleCardSetPost and of saveCardSets interleave. *)

\* the reviews started, at most
MaxRaces == 2

\* the handler is up on the files of the quick start and a session of the
\* cards due or new is open
RaceInit ==
    /\ ParseIdle
    /\ SchedIdle
    /\ FindIdle
    /\ NoRequests
    /\ disk \in [SetIds -> {NoFile, File(<< DataLine(<<"a">>, 0, 2), DataLine(<<"x">>, -24, 3) >>)}]
    /\ disk["b.cd"] = NoFile
    /\ up = TRUE
    /\ cardSets = [id \in SetIds |-> LoadAll(disk)[id].cards]
    /\ \E id \in SetIds : session = populateCardSetSession(<<id>>, NoSession, cardSets)
    /\ save = {}
    /\ page = NoPage
    /\ changes = 0

\* card i of the card set id replaced by c
WithCard(sets, id, i, c) == [sets EXCEPT ![id] = [sets[id] EXCEPT ![i] = c]]

\* the card the review request is about
ReviewIndex == FindMd5(cardSets[session.cardSet], reviewReq.md5, 1)
ReviewCard == cardSets[session.cardSet][ReviewIndex]

\* handleCardSetPost, the POST of a review in a session of spaced repetition:
\* parseCardSetPost has returned the card
StartReview(md5, review) ==
    /\ up
    /\ reviewReq.pc = "idle"
    /\ changes < MaxRaces
    /\ session.active /\ session.spacedRepetition
    /\ parseCardSetPost(session, cardSets, "review", md5) = ""
    /\ reviewReq' = [pc |-> "mark", md5 |-> md5, review |-> review]
    /\ changes' = changes + 1
    /\ UNCHANGED <<pvars, svars, dvars, now, disk, up, cardSets, session, save, page,
                   saveReq>>

\* h.save[h.session.cardSet.Id] = true. An entry created while saveCardSets
\* ranges over the map is produced by the range or skipped.
ReviewMark ==
    /\ reviewReq.pc = "mark"
    /\ save' = save \cup {session.cardSet}
    /\ reviewReq' = [reviewReq EXCEPT !.pc = "time"]
    /\ IF saveReq.pc = "loop" /\ session.cardSet \notin save
       THEN \E produced \in BOOLEAN :
               saveReq' = IF produced
                          THEN [saveReq EXCEPT !.todo = @ \cup {session.cardSet}]
                          ELSE saveReq
       ELSE UNCHANGED saveReq
    /\ UNCHANGED <<pvars, svars, dvars, now, disk, up, cardSets, session, page, changes>>

\* the map write of handleCardSetPost during the range of saveCardSets: the
\* runtime can end the process with its fatal error of a concurrent map
\* access
MapFault ==
    /\ reviewReq.pc = "mark"
    /\ saveReq.pc = "loop"
    /\ up' = FALSE
    /\ cardSets' = <<>>
    /\ session' = NoSession
    /\ save' = {}
    /\ page' = NoPage
    /\ reviewReq' = NoReview
    /\ saveReq' = NoSave
    /\ UNCHANGED <<pvars, svars, dvars, now, disk, changes>>

\* card.LastReviewTime = now
ReviewTime ==
    /\ reviewReq.pc = "time"
    /\ cardSets' = WithCard(cardSets, session.cardSet, ReviewIndex,
                            [ReviewCard EXCEPT !.LastReviewTime = now])
    /\ reviewReq' = [reviewReq EXCEPT !.pc = "count"]
    /\ UNCHANGED <<pvars, svars, dvars, now, disk, up, session, save, page, changes,
                   saveReq>>

\* card.CorrectCount += 1 or = 0, card.Interval() and the cards done, and
\* the page of the response
ReviewCount ==
    /\ reviewReq.pc = "count"
    /\ \E c \in {[ReviewCard EXCEPT !.CorrectCount =
                        IF reviewReq.review = "correct" THEN @ + 1 ELSE 0]} :
          /\ cardSets' = WithCard(cardSets, session.cardSet, ReviewIndex, c)
          /\ session' = IF reviewReq.review = "correct" /\ ~IntervalPanics(c)
                           /\ Interval(c) > 0
                        THEN [session EXCEPT !.cardsDone = @ \cup {c.Md5}]
                        ELSE session
          /\ page' \in IF reviewReq.review = "correct" /\ IntervalPanics(c)
                       THEN {PanicPage}
                       ELSE CardPages(session', cardSets', now)
    /\ reviewReq' = NoReview
    /\ UNCHANGED <<pvars, svars, dvars, now, disk, up, save, changes, saveReq>>

\* POST /, action update: saveCardSets begins its range over h.save
StartSave ==
    /\ up
    /\ saveReq.pc = "idle"
    /\ saveReq' = [pc |-> "loop", todo |-> save]
    /\ UNCHANGED <<pvars, svars, dvars, now, hvars, reviewReq>>

\* one turn of the range: MkdirAll and SaveData(false) of the card set, as
\* its cards are now
SaveWrite(id) ==
    /\ saveReq.pc = "loop"
    /\ id \in saveReq.todo
    /\ disk' = [disk EXCEPT ![id] = SaveCardData(cardSets[id], FALSE)]
    /\ saveReq' = [saveReq EXCEPT !.todo = @ \ {id}]
    /\ UNCHANGED <<pvars, svars, dvars, now, up, cardSets, session, save, page, changes,
                   reviewReq>>

\* one turn of the range in which MkdirAll or os.Create fails: saveCardSets
\* returns the error
SaveFail ==
    /\ saveReq.pc = "loop"
    /\ saveReq.todo # {}
    /\ page' = Msg("Unable to save card sets")
    /\ saveReq' = NoSave
    /\ UNCHANGED <<pvars, svars, dvars, now, disk, up, cardSets, session, save, changes,
                   reviewReq>>

\* the range is over: h.save = map[string]bool{}, and the main page
SaveReset ==
    /\ saveReq.pc = "loop"
    /\ saveReq.todo = {}
    /\ save' = {}
    /\ page' = pageMain(cardSets, now)
    /\ saveReq' = NoSave
    /\ UNCHANGED <<pvars, svars, dvars, now, disk, up, cardSets, session, changes,
                   reviewReq>>

RaceNext ==
    \/ \E md5 \in Md5Values, review \in {"correct", "incorrect"} : StartReview(md5, review)
    \/ ReviewMark
    \/ MapFault
    \/ ReviewTime
    \/ ReviewCount
    \/ StartSave
    \/ \E id \in SetIds : SaveWrite(id)
    \/ SaveFail
    \/ SaveReset
    \/ TimePasses

SpecRace == RaceInit /\ [][RaceNext]_vars

-----------------------------------------------------------------------------
(* Card sets of more cards than a page of getCards holds *)

\* the cards of a card set of n cards "k | k" whose progress file gives card k
\* the streak streaks[k]
LongCardSet(streaks) ==
    [k \in 1..Len(streaks) |->
        [NewCard(<<ToString(k)>>, TRUE, <<ToString(k)>>, <<ToString(k)>>)
            EXCEPT !.LastReviewTime = 0, !.CorrectCount = streaks[k]]]

\* the streaks of the progress files tried: 10 to 12 cards of streak 0, some
\* of them with streak 2, 1 or -1
LongStreaks ==
    { [k \in 1..n |-> IF k \in H THEN 2 ELSE IF k \in G THEN -1
                      ELSE IF k \in M THEN 1 ELSE 0] :
        n \in 10..12, H \in {{}, {3}, {11}}, M \in {{}, {1, 2}, {5, 12}},
        G \in {{}, {4}, {4, 10}} }

\* the cards answered correct in a session of the all link, at most
MaxDone == 2

\* the handler is up on a.cd, a long card set, and on the empty b.cd
PageInit ==
    /\ ParseIdle
    /\ SchedIdle
    /\ FindIdle
    /\ NoRequests
    /\ \E streaks \in LongStreaks :
          /\ cardSets = [id \in SetIds |->
                            IF id = "a.cd" THEN LongCardSet(streaks) ELSE <<>>]
          /\ disk = [id \in SetIds |-> SaveCardData(cardSets[id], FALSE)]
    /\ up = TRUE
    /\ session = NoSession
    /\ save = {}
    /\ page = NoPage
    /\ changes = 0

\* the card shown is answered correct in a session of the all link
DrillCorrect ==
    /\ page.kind = "front"
    /\ session.cardType = "all"
    /\ Cardinality(session.cardsDone) < MaxDone
    /\ PostCardSet("review", page.md5, "correct")

PageNext ==
    \/ \E parts \in {<<"a.cd">>, <<"a.cd", "all">>, <<"a.cd", "new">>} : GetCardSet(parts)
    \/ DrillCorrect

SpecPage == PageInit /\ [][PageNext]_vars

-----------------------------------------------------------------------------
(* Finding the card sets (pkg/gocards): the file cardFiles, the walks *)

\* A path is text: a sequence of pieces, a piece being the separator "/", a
\* name without separator, or at the end of a name the suffix ".cd", the
\* letter "d" or the text ".d".
Sep == "/"
CdSuffix == ".cd"

\* strings.HasSuffix(s, ".cd") and strings.TrimSuffix(s, ".cd")
HasSuffixCd(s) == Len(s) > 0 /\ s[Len(s)] = CdSuffix
TrimSuffixCd(s) == IF HasSuffixCd(s) THEN SubSeq(s, 1, Len(s) - 1) ELSE s

\* the elements of a path between its separators
Elements(path) == Split(path, <<Sep>>)

RECURSIVE JoinElements(_)
JoinElements(es) ==
    IF es = <<>> THEN <<>>
    ELSE IF Len(es) = 1 THEN es[1]
    ELSE es[1] \o <<Sep>> \o JoinElements(Tail(es))

\* filepath.Clean on the paths of the model (none holds ..): no empty
\* element, no element ".", no separator at the end
FilepathClean(path) ==
    LET es == SelectSeq(Elements(path), LAMBDA e : e # <<>> /\ e # <<".">>)
    IN IF path # <<>> /\ path[1] = Sep THEN <<Sep>> \o JoinElements(es)
       ELSE IF es = <<>> THEN <<".">>
       ELSE JoinElements(es)

\* filepath.Join: the elements that are not empty, joined and cleaned
FilepathJoin(elems) ==
    LET es == SelectSeq(elems, LAMBDA e : e # <<>>)
    IN IF es = <<>> THEN <<>> ELSE FilepathClean(JoinElements(es))

\* targ is base or lies under base (both clean)
Under(base, targ) ==
    IF base = <<".">> THEN targ[1] # Sep
    ELSE IF base = <<Sep>> THEN targ[1] = Sep
    ELSE targ = base \/ HasPrefix(targ, base \o <<Sep>>)

\* filepath.Rel(base, targ) for a target under the base
FilepathRel(base, targ) ==
    LET b == FilepathClean(base)
        t == FilepathClean(targ)
    IN IF t = b THEN <<".">>
       ELSE IF b = <<".">> THEN t
       ELSE IF b = <<Sep>> THEN SubSeq(t, 2, Len(t))
       ELSE SubSeq(t, Len(b) + 2, Len(t))

\* The files of the model. Under the root path, in the order filepath.Walk
\* meets them, as paths relative to it: a card file, its data file and a
\* file that is no card file
LocalTree ==
    << <<"es", Sep, "nouns", CdSuffix>>,
       <<"es", Sep, "nouns", CdSuffix, "d">>,
       <<"notes">> >>

\* outside the root path, in the order filepath.Walk meets them
RemoteTree ==
    << <<Sep, "ext1", Sep, "es", Sep, "nouns", CdSuffix>>,
       <<Sep, "ext1", Sep, "es", Sep, "readme">>,
       <<Sep, "ext1", Sep, "es", Sep, "top", Sep, "verbs", CdSuffix>>,
       <<Sep, "ext2", Sep, "es", Sep, "nouns", CdSuffix>> >>

\* the values of --path tried: the working directory, a directory, and a
\* directory that does not exist
RootPaths == { <<".">>, <<"root">>, <<"gone">> }
RootExists(root) == root # <<"gone">>

\* every file there is, when the root path is root
FilesInOrder(root) ==
    (IF RootExists(root)
     THEN [k \in 1..Len(LocalTree) |-> FilepathJoin(<<root, LocalTree[k]>>)]
     ELSE <<>>) \o RemoteTree

IsFile(root, path) ==
    \E k \in 1..Len(FilesInOrder(root)) : FilesInOrder(root)[k] = path
IsDir(root, path) ==
    \/ path = <<".">>
    \/ \E k \in 1..Len(FilesInOrder(root)) :
          FilesInOrder(root)[k] # path /\ Under(path, FilesInOrder(root)[k])

\* filepath.Walk(path, walk): os.Lstat fails on a path that is not there
WalkFails(root, path) ==
    LET c == FilepathClean(path)
    IN IF c = <<".">> THEN FALSE
       ELSE ~IsFile(root, c) /\ ~IsDir(root, c)

\* the files walk is called on, in order (it returns nil for directories):
\* the path itself when it is a file, else the files under it
WalkFiles(root, path) ==
    LET c == FilepathClean(path)
    IN IF c # <<".">> /\ IsFile(root, c) THEN <<path>>
       ELSE SelectSeq(FilesInOrder(root), LAMBDA f : Under(c, f))

\* strings.Fields on a line whose white space is the space
RECURSIVE Fields(_)
Fields(s) ==
    IF s = <<>> THEN <<>>
    ELSE IF s[1] = " " THEN Fields(Tail(s))
    ELSE LET i == Index(s, <<" ">>)
         IN IF i = 0 THEN <<s>>
            ELSE <<SubSeq(s, 1, i - 1)>> \o Fields(SubSeq(s, i + 1, Len(s)))

CardSetPath(root, relative, rename) ==
    [RootPath |-> root, RelativePath |-> relative, RenamePath |-> rename]

\* the scanner loop of LoadCardSetPaths that skips a line it cannot use.
RECURSIVE LoadPathLinesSkipping(_, _)
LoadPathLinesSkipping(ps, ls) ==
    IF ls = <<>> THEN [paths |-> ps, err |-> ""]
    ELSE LET fields == Fields(Head(ls))
         IN IF Len(fields) = 2
            THEN LoadPathLinesSkipping(
                    Append(ps, CardSetPath(fields[1], fields[2], <<>>)), Tail(ls))
            ELSE IF Len(fields) = 3
            THEN LoadPathLinesSkipping(
                    Append(ps, CardSetPath(fields[1], fields[2], fields[3])), Tail(ls))
            ELSE LoadPathLinesSkipping(ps, Tail(ls))

\* the scanner loop of LoadCardSetPaths
RECURSIVE LoadPathLines(_, _)
LoadPathLines(ps, ls) ==
    IF ls = <<>> THEN [paths |-> ps, err |-> ""]
    ELSE LET fields == Fields(Head(ls))
         IN IF Len(fields) = 2
            THEN LoadPathLines(Append(ps, CardSetPath(fields[1], fields[2], <<>>)), Tail(ls))
            ELSE IF Len(fields) = 3
            THEN LoadPathLines(Append(ps, CardSetPath(fields[1], fields[2], fields[3])),
                               Tail(ls))
            ELSE [paths |-> <<>>, err |-> "Unexpected number of fields"]

\* LoadCardSetPaths: no file, no paths
LoadCardSetPaths(file) ==
    IF ~file.exists THEN [paths |-> <<>>, err |-> ""]
    ELSE LoadPathLines(<<>>, file.lines)

NewCardSet(id, cardFilePath, cardDataPath) ==
    [Id |-> id, CardFilePath |-> cardFilePath, CardDataPath |-> cardDataPath]

\* the card files among the files a walk meets
CardFilesOf(files) == SelectSeq(files, HasSuffixCd)

\* findRootPathCardSets
findRootPathCardSets(root) ==
    IF WalkFails(root, root) THEN [cardSets |-> <<>>, err |-> "lstat"]
    ELSE LET fs == CardFilesOf(WalkFiles(root, root))
         IN [cardSets |-> [k \in 1..Len(fs) |->
                              NewCardSet(FilepathRel(root, fs[k]), fs[k], fs[k] \o <<"d">>)],
             err |-> ""]

\* the walk function of findRemotePathCardSets in which a renamed directory
\* keeps its data files under the directory of the relative path.
remoteCardSetUnrenamed(root, csp, path) ==
    IF HasSuffixCd(csp.RelativePath)
    THEN IF Len(csp.RenamePath) > 0
         THEN NewCardSet(TrimSuffixCd(csp.RenamePath), path,
                         FilepathJoin(<<root, csp.RenamePath>>) \o <<".d">>)
         ELSE NewCardSet(TrimSuffixCd(csp.RelativePath), path,
                         FilepathJoin(<<root, csp.RelativePath>>) \o <<".d">>)
    ELSE LET relPath == FilepathRel(csp.RootPath, path)
         IN NewCardSet(TrimSuffixCd(FilepathJoin(<<root, relPath>>)), path,
                       FilepathJoin(<<root, relPath>>) \o <<"d">>)

\* the walk function of findRemotePathCardSets on a card file: the card set
remoteCardSet(root, csp, path) ==
    IF HasSuffixCd(csp.RelativePath)
    THEN IF Len(csp.RenamePath) > 0
         THEN NewCardSet(TrimSuffixCd(csp.RenamePath), path,
                         FilepathJoin(<<root, csp.RenamePath>>) \o <<".d">>)
         ELSE NewCardSet(TrimSuffixCd(csp.RelativePath), path,
                         FilepathJoin(<<root, csp.RelativePath>>) \o <<".d">>)
    ELSE LET relPath == FilepathRel(csp.RootPath, path)
         IN IF Len(csp.RenamePath) > 0
            THEN LET renamePath == FilepathJoin(<<csp.RootPath, csp.RelativePath>>)
                     endPath == FilepathRel(renamePath, path)
                 IN NewCardSet(TrimSuffixCd(FilepathJoin(<<csp.RenamePath, endPath>>)),
                               path,
                               FilepathJoin(<<root, csp.RenamePath, endPath>>) \o <<"d">>)
            ELSE NewCardSet(TrimSuffixCd(FilepathJoin(<<root, relPath>>)), path,
                            FilepathJoin(<<root, relPath>>) \o <<"d">>)

\* one turn of the loop of findRemotePathCardSets: the walk of one entry
walkCardSetPath(root, csp, sets) ==
    LET path == FilepathJoin(<<csp.RootPath, csp.RelativePath>>)
    IN IF WalkFails(root, path) THEN [cardSets |-> <<>>, err |-> "lstat"]
       ELSE LET fs == CardFilesOf(WalkFiles(root, path))
            IN [cardSets |-> sets \o [k \in 1..Len(fs) |-> remoteCardSet(root, csp, fs[k])],
                err |-> ""]

\* FindCardSets: the local card sets, then those of every entry in turn
RECURSIVE findRemotePathCardSets(_, _, _)
findRemotePathCardSets(root, csps, sets) ==
    IF csps = <<>> THEN [cardSets |-> sets, err |-> ""]
    ELSE LET r == walkCardSetPath(root, Head(csps), sets)
         IN IF r.err # "" THEN r
            ELSE findRemotePathCardSets(root, Tail(csps), r.cardSets)

FindCardSets(root, csps) ==
    LET r == findRootPathCardSets(root)
    IN IF r.err # "" THEN r ELSE findRemotePathCardSets(root, csps, r.cardSets)

\* the order of Go strings on the ids of the model: the pieces in byte order
PieceOrder ==
    <<CdSuffix, Sep, "all", "es", "es1", "es2", "lang", "nouns", "root", "top",
      "verbs">>
PieceRank(x) == CHOOSE k \in 1..Len(PieceOrder) : PieceOrder[k] = x

RECURSIVE IdLess(_, _)
IdLess(a, b) ==
    IF b = <<>> THEN FALSE
    ELSE IF a = <<>> THEN TRUE
    ELSE IF a[1] = b[1] THEN IdLess(Tail(a), Tail(b))
    ELSE PieceRank(a[1]) < PieceRank(b[1])

Without(list, i) == SubSeq(list, 1, i - 1) \o SubSeq(list, i + 1, Len(list))

\* newHttpHandler that keeps the list as FindCardSets returned it.
sortSliceOmitted(list) == {list}

\* sort.Slice by Id: the sort is not stable, so card sets of one id can
\* come out in any order
RECURSIVE sortSlice(_)
sortSlice(list) ==
    IF list = <<>> THEN {<<>>}
    ELSE UNION { { <<list[i]>> \o rest : rest \in sortSlice(Without(list, i)) } :
                 i \in { i \in 1..Len(list) :
                            \A j \in 1..Len(list) : ~IdLess(list[j].Id, list[i].Id) } }

\* the lines a file cardFiles is made of
RuleLines ==
    { <<Sep, "ext1", Sep, " ", "es">>,
      <<Sep, "ext1", Sep, " ", "es", Sep, "nouns", CdSuffix>>,
      <<Sep, "ext1", Sep, " ", "es", " ", "es1">>,
      <<Sep, "ext2", " ", "es", " ", "es2">>,
      <<Sep, "ext1", Sep, " ", "es", Sep, "nouns", CdSuffix, " ",
        "lang", Sep, "nouns", CdSuffix>>,
      <<>>,
      <<Sep, "ext1", Sep>>,
      <<Sep, "ext1", Sep, " ", "es", " ", "es1", " ", "es2">>,
      <<Sep, "ext1", Sep, " ", "gone">>,
      <<Sep, "ext2", " ", "es">>,
      <<Sep, "ext2", " ", "es", Sep, "nouns", CdSuffix, " ",
        "lang", Sep, "all", CdSuffix>> }

\* the number of lines of the file cardFiles
MaxRules == 2

CardFilesInputs ==
    {[exists |-> FALSE, lines |-> <<>>]}
        \cup {[exists |-> TRUE, lines |-> ls] :
                ls \in UNION {[1..n -> RuleLines] : n \in 0..MaxRules}}

\* gocards --http is run with a root path and a file cardFiles
FindInit ==
    /\ ParseIdle
    /\ SchedIdle
    /\ HandlerIdle
    /\ NoRequests
    /\ rootPath \in RootPaths
    /\ cardFiles \in CardFilesInputs
    /\ findStage = "start"
    /\ paths = <<>>
    /\ walked = 0
    /\ found = <<>>
    /\ findErr = ""
    /\ kept = <<>>

\* newHttpHandler returns the error and no handler
FindFailed(err) ==
    /\ findStage' = "failed"
    /\ findErr' = err
    /\ kept' = <<>>

\* newHttpHandler: LoadCardSetPaths on the file cardFiles of the root path
CallLoadCardSetPaths ==
    /\ findStage = "start"
    /\ \E r \in {LoadCardSetPaths(IF RootExists(rootPath) THEN cardFiles
                                   ELSE [exists |-> FALSE, lines |-> <<>>])} :
          /\ paths' = r.paths
          /\ IF r.err # "" THEN FindFailed(r.err)
             ELSE findStage' = "local" /\ UNCHANGED <<findErr, kept>>
    /\ UNCHANGED <<pvars, svars, now, hvars, cvars, rootPath, cardFiles, walked, found>>

\* FindCardSets: findRootPathCardSets
CallFindRootPathCardSets ==
    /\ findStage = "local"
    /\ \E r \in {findRootPathCardSets(rootPath)} :
          /\ found' = r.cardSets
          /\ IF r.err # "" THEN FindFailed(r.err)
             ELSE findStage' = "remote" /\ UNCHANGED <<findErr, kept>>
    /\ UNCHANGED <<pvars, svars, now, hvars, cvars, rootPath, cardFiles, paths, walked>>

\* FindCardSets: one turn of the loop of findRemotePathCardSets
WalkCardSetPath ==
    /\ findStage = "remote"
    /\ walked < Len(paths)
    /\ \E r \in {walkCardSetPath(rootPath, paths[walked + 1], found)} :
          /\ found' = r.cardSets
          /\ walked' = walked + 1
          /\ IF r.err # "" THEN FindFailed(r.err)
             ELSE UNCHANGED <<findStage, findErr, kept>>
    /\ UNCHANGED <<pvars, svars, now, hvars, cvars, rootPath, cardFiles, paths>>

\* newHttpHandler after FindCardSets: LoadCardSets, which fails when a card
\* set does not load, then the sort by Id and the handler
LoadAndSort ==
    /\ findStage = "remote"
    /\ walked = Len(paths)
    /\ \E loads \in BOOLEAN :
          IF loads
          THEN /\ findStage' = "done"
               /\ kept' \in sortSlice(found)
               /\ UNCHANGED findErr
          ELSE FindFailed("Unable to load")
    /\ UNCHANGED <<pvars, svars, now, hvars, cvars, rootPath, cardFiles, paths, walked, found>>

FindNext ==
    \/ CallLoadCardSetPaths
    \/ CallFindRootPathCardSets
    \/ WalkCardSetPath
    \/ LoadAndSort

SpecFind == FindInit /\ [][FindNext]_vars

-----------------------------------------------------------------------------
(* The card sets found *)

\* the card files a walk of the root path, of an entry of cardFiles, meets
LocalCardFiles == CardFilesOf(WalkFiles(rootPath, rootPath))
EntryPath(csp) == FilepathJoin(<<csp.RootPath, csp.RelativePath>>)
EntryCardFiles(csp) == CardFilesOf(WalkFiles(rootPath, EntryPath(csp)))

RECURSIVE EntriesCount(_)
EntriesCount(csps) ==
    IF csps = <<>> THEN 0
    ELSE Len(EntryCardFiles(Head(csps))) + EntriesCount(Tail(csps))

Occurrences(list, x) == Cardinality({k \in 1..Len(list) : list[k] = x})
Ascending(list) == \A k \in 1..(Len(list) - 1) : ~IdLess(list[k + 1].Id, list[k].Id)

\* FindCardSets has returned its list: found holds it
FindReturned == findStage = "done" \/ (findStage = "remote" /\ walked = Len(paths))

(* C23: the list of card sets the handler keeps holds a card set for every
   card file under the root path and for every card file under every entry
   of cardFiles, as many as the walks met, and is in ascending order of Id,
   whatever the order of the entries and of the files; FindCardSets returns
   the local card sets in the order of the walk, then those of each entry
   in the order of the entries, and newHttpHandler sorts them. *)
C23_KeptSorted ==
    findStage = "done"
        => /\ \A k \in 1..Len(LocalCardFiles) :
                 \E m \in 1..Len(kept) : kept[m].CardFilePath = LocalCardFiles[k]
           /\ \A r \in 1..Len(paths) :
                 \A k \in 1..Len(EntryCardFiles(paths[r])) :
                    \E m \in 1..Len(kept) :
                       /\ kept[m].CardFilePath = EntryCardFiles(paths[r])[k]
                       /\ kept[m] = remoteCardSet(rootPath, paths[r], kept[m].CardFilePath)
           /\ Len(kept) = Len(LocalCardFiles) + EntriesCount(paths)
           /\ \A m \in 1..Len(kept) : Occurrences(kept, kept[m]) = Occurrences(found, kept[m])
           /\ Ascending(kept)
           /\ \A k \in 1..Len(LocalCardFiles) : found[k].CardFilePath = LocalCardFiles[k]

C23_Witness ==
    /\ findStage = "done"
    /\ Len(kept) = 5
    /\ ~Ascending(found)
    /\ Ascending(kept)

\* C23 as stated: the list FindCardSets returns is in ascending order of Id
C23_FoundSorted == FindReturned => Ascending(found)

(* C24: within one result of FindCardSets either the Id of every card set,
   local or remote, keeps the suffix .cd of the card file or the Id of every
   card set drops it. *)
C24_OneConvention ==
    FindReturned
        => \/ \A k \in 1..Len(found) : HasSuffixCd(found[k].Id)
           \/ \A k \in 1..Len(found) : ~HasSuffixCd(found[k].Id)

\* a walk of the next entry of cardFiles has gone through
WalksEntry == findStage = "remote" /\ findStage' = "remote" /\ walked' = walked + 1
Entry == paths[walked + 1]
EntryName == IF Entry.RenamePath # <<>> THEN Entry.RenamePath ELSE Entry.RelativePath

(* C25: an entry of cardFiles whose relative path ends in .cd yields exactly
   one card set: its card file is the root of the entry joined with the
   relative path, its Id is the rename (the relative path when there is
   none) without the suffix .cd, and its data file is the root path joined
   with the rename (else the relative path) followed by d, a path that ends
   in .cdd. *)
C25_SingleFile ==
    [][(WalksEntry /\ HasSuffixCd(Entry.RelativePath))
        => /\ Len(found') = Len(found) + 1
           /\ SubSeq(found', 1, Len(found)) = found
           /\ found'[Len(found')].CardFilePath = EntryPath(Entry)
           /\ found'[Len(found')].Id = TrimSuffixCd(EntryName)
           /\ found'[Len(found')].CardDataPath
                 = FilepathJoin(<<rootPath, EntryName>>) \o <<"d">>]_vars

\* the data files FindCardSets gave the card files of entry r of cardFiles
RECURSIVE EntryStart(_, _)
EntryStart(csps, r) ==
    IF r = 1 THEN 0
    ELSE Len(EntryCardFiles(csps[r - 1])) + EntryStart(csps, r - 1)
EntryDataPaths(r) ==
    {found[Len(LocalCardFiles) + EntryStart(paths, r) + k].CardDataPath :
        k \in 1..Len(EntryCardFiles(paths[r]))}

Separate(a, b) == ~Under(a, b) /\ ~Under(b, a)

(* C26: for an entry of cardFiles whose relative path S is a directory, with
   root R and perhaps a rename N, every card file R/S/p the walk meets gets
   the data file root path/(N, else S)/p followed by d; so two entries of
   the same S with renames N1 and N2 that are separate directories have
   their data files under separate directories. *)
C26_Directory ==
    /\ [][(WalksEntry /\ ~HasSuffixCd(Entry.RelativePath))
            => LET fs == EntryCardFiles(Entry)
               IN /\ Len(found') = Len(found) + Len(fs)
                  /\ SubSeq(found', 1, Len(found)) = found
                  /\ \A k \in 1..Len(fs) :
                        /\ found'[Len(found) + k].CardFilePath = fs[k]
                        /\ fs[k] = EntryPath(Entry) \o <<Sep>>
                                        \o FilepathRel(EntryPath(Entry), fs[k])
                        /\ found'[Len(found) + k].CardDataPath
                              = FilepathJoin(<<rootPath, EntryName,
                                               FilepathRel(EntryPath(Entry), fs[k])>>)
                                    \o <<"d">>]_vars
    /\ [](FindReturned
            => \A r1, r2 \in 1..Len(paths) :
                  (/\ ~HasSuffixCd(paths[r1].RelativePath)
                   /\ paths[r1].RelativePath = paths[r2].RelativePath
                   /\ paths[r1].RenamePath # <<>>
                   /\ paths[r2].RenamePath # <<>>
                   /\ Separate(paths[r1].RenamePath, paths[r2].RenamePath))
                    => /\ EntryDataPaths(r1) \cap EntryDataPaths(r2) = {}
                       /\ \A d \in EntryDataPaths(r1) :
                             Under(FilepathJoin(<<rootPath, paths[r1].RenamePath>>), d))

C26_Witness ==
    /\ findStage = "done"
    /\ rootPath = <<"root">>
    /\ Len(paths) = 2
    /\ paths[1] = CardSetPath(<<Sep, "ext1", Sep>>, <<"es">>, <<"es1">>)
    /\ paths[2] = CardSetPath(<<Sep, "ext2">>, <<"es">>, <<"es2">>)
    /\ EntryDataPaths(1) = { <<"root", Sep, "es1", Sep, "nouns", CdSuffix, "d">>,
                             <<"root", Sep, "es1", Sep, "top", Sep, "verbs", CdSuffix, "d">> }
    /\ EntryDataPaths(2) = { <<"root", Sep, "es2", Sep, "nouns", CdSuffix, "d">> }

\* a line of cardFiles LoadCardSetPaths rejects
BadLine(l) == Len(Fields(l)) \notin {2, 3}
CardFilesRead == RootExists(rootPath) /\ cardFiles.exists
HasBadLine ==
    CardFilesRead /\ \E k \in 1..Len(cardFiles.lines) : BadLine(cardFiles.lines[k])

\* the walk FindCardSets is about to make meets a path that is not there
NextWalkFails ==
    \/ findStage = "local" /\ ~RootExists(rootPath)
    \/ /\ findStage = "remote"
       /\ walked < Len(paths)
       /\ ~IsFile(rootPath, EntryPath(Entry))
       /\ ~IsDir(rootPath, EntryPath(Entry))

(* C27: LoadCardSetPaths fails and returns no entries when a line of
   cardFiles, an empty one included, has a number of fields other than 2 or
   3, and returns one entry per line otherwise; FindCardSets fails and
   returns no card sets when the local walk or the walk of an entry reports
   an error; neither returns an error together with a part of its list,
   and no handler is made. *)
C27_AllOrNothing ==
    /\ [][(findStage = "start" /\ findStage' # "start")
            => IF HasBadLine
               THEN /\ findStage' = "failed"
                    /\ findErr' = "Unexpected number of fields"
                    /\ paths' = <<>>
                    /\ kept' = <<>>
               ELSE /\ findStage' = "local"
                    /\ findErr' = ""
                    /\ Len(paths') = IF CardFilesRead THEN Len(cardFiles.lines) ELSE 0]_vars
    /\ [][(findStage \in {"local", "remote"} /\ found' # found)
            => IF NextWalkFails
               THEN /\ findStage' = "failed"
                    /\ findErr' # ""
                    /\ found' = <<>>
                    /\ kept' = <<>>
               ELSE /\ findStage' = "remote"
                    /\ findErr' = ""]_vars
    /\ [][(NextWalkFails /\ findStage' # findStage)
            => findStage' = "failed" /\ found' = <<>>]_vars
    /\ [](findErr = "Unexpected number of fields" => paths = <<>> /\ found = <<>>)
    /\ [](findErr = "lstat" => found = <<>> /\ kept = <<>>)

C27_Witness ==
    /\ findStage = "failed"
    /\ findErr = "lstat"
    /\ walked = 2
    /\ Len(EntryCardFiles(paths[1])) = 2
    /\ found = <<>>
    /\ kept = <<>>

(* C28: no two card sets of one result of FindCardSets have the same data
   file, so that saving one never overwrites the progress of another; a
   local card file and a remote card file mapped to the same relative path
   do not share a data file. *)
C28_OwnDataFile ==
    FindReturned
        => \A i, j \in 1..Len(found) :
              i # j => found[i].CardDataPath # found[j].CardDataPath

-----------------------------------------------------------------------------
(* The links of the main page *)

\* the string the pieces of an id spell
RECURSIVE Text(_)
Text(pieces) == IF pieces = <<>> THEN "" ELSE pieces[1] \o Text(Tail(pieces))

\* pageMain writes href="Id", href="Id/all", href="Id/new", href="Id/due" and
\* href="Id/n" on the page of the path /; parseCardSetUrl splits the path of
\* the request at its slashes
LinkParts(id, suffix) ==
    [k \in 1..Len(Elements(id)) |-> Text(Elements(id)[k])] \o suffix

\* the intervals pageMain writes a link for, among those isInt knows
LinkIntervals == {Intervals[k] : k \in 1..Len(Intervals)} \cap CountDomain

\* the loop of populateCardSetSession over h.cardSets: the place of the card
\* set it ends with, 0 when it ends with none
lookupCardSet(sets, cardSetId) ==
    LET ks == {k \in 1..Len(sets) : Text(sets[k].Id) = cardSetId}
    IN IF ks = {} THEN 0 ELSE CHOOSE k \in ks : \A j \in ks : j <= k

\* the session a GET of a link opens
LinkSession(sets, id, suffix) ==
    LET u == parseCardSetUrl(LinkParts(id, suffix))
    IN [cardSet |-> lookupCardSet(sets, u.cardSetId),
        spacedRepetition |-> u.spacedRepetition,
        cardType |-> u.cardType,
        cardInterval |-> u.cardInterval]

SessionOf(k, sr, type, interval) ==
    [cardSet |-> k, spacedRepetition |-> sr, cardType |-> type,
     cardInterval |-> interval]

(* C36: every card set the handler keeps is reached through its links of the
   main page: for the card set at place k, of Id I, the paths /I, /I/all,
   /I/new, /I/due and /I/n open a session on that card set, of the cards due
   or new (spaced repetition), of all cards (drill), of the new cards (spaced
   repetition), of the due cards (spaced repetition) and of the interval n
   (drill), whatever the last part of I is. *)
C36_LinksResolve ==
    findStage = "done"
        => \A k \in 1..Len(kept) :
              /\ LinkSession(kept, kept[k].Id, <<>>) = SessionOf(k, TRUE, "due_new", -1)
              /\ LinkSession(kept, kept[k].Id, <<"all">>) = SessionOf(k, FALSE, "all", -1)
              /\ LinkSession(kept, kept[k].Id, <<"new">>) = SessionOf(k, TRUE, "new", -1)
              /\ LinkSession(kept, kept[k].Id, <<"due">>) = SessionOf(k, TRUE, "due", -1)
              /\ \A n \in LinkIntervals :
                    LinkSession(kept, kept[k].Id, <<FormatInt(n)>>)
                        = SessionOf(k, FALSE, "", n)

\* the Ids FindCardSets gave the card files of entry r of cardFiles, and
\* those of every entry
EntryIds(r) ==
    [k \in 1..Len(EntryCardFiles(paths[r]))
        |-> found[Len(LocalCardFiles) + EntryStart(paths, r) + k].Id]
EntriesIds ==
    [k \in 1..(Len(found) - Len(LocalCardFiles)) |-> found[Len(LocalCardFiles) + k].Id]

\* the Ids findRemotePathCardSets gives the same entries when gocards is run
\* with the root path root
RemoteIds(root) ==
    LET r == findRemotePathCardSets(root, paths, <<>>)
    IN [k \in 1..Len(r.cardSets) |-> r.cardSets[k].Id]

(* C37: the Id of a remote card set does not depend on the root path: for
   an entry of cardFiles whose relative path S is a directory, with root R
   and perhaps a rename N, the card file R/S/p gets the Id (N, else S)/p
   without the suffix .cd, and gocards run with another root path and the
   same entries gives the same Ids. *)
C37_RootIndependent ==
    FindReturned
        => /\ \A r \in 1..Len(paths) :
                 ~HasSuffixCd(paths[r].RelativePath)
                    => \A k \in 1..Len(EntryCardFiles(paths[r])) :
                          EntryIds(r)[k]
                             = TrimSuffixCd(FilepathJoin(
                                  <<IF paths[r].RenamePath # <<>>
                                    THEN paths[r].RenamePath
                                    ELSE paths[r].RelativePath,
                                    FilepathRel(EntryPath(paths[r]),
                                                EntryCardFiles(paths[r])[k])>>))
           /\ \A root \in RootPaths :
                 RootExists(root) => RemoteIds(root) = EntriesIds

-----------------------------------------------------------------------------
(* Reviews and the progress files *)

\* the kinds of session, by the link that opened them
IsSpacedRepetition(sess) == sess.active /\ sess.cardType \in {"due_new", "due", "new"}
IsDrill(sess) == sess.active /\ sess.cardType \in {"all", ""}

\* every card of every card set but card i of the card set id is as it was
OthersUnchanged(id, i) ==
    /\ DOMAIN cardSets' = DOMAIN cardSets
    /\ \A id2 \in DOMAIN cardSets :
          /\ Len(cardSets'[id2]) = Len(cardSets[id2])
          /\ \A k \in 1..Len(cardSets[id2]) :
                (id2 # id \/ k # i) => cardSets'[id2][k] = cardSets[id2][k]

\* the step is the POST of a review of the card md5, in a spaced-repetition
\* session
ReviewStep(md5, review) ==
    /\ up
    /\ IsSpacedRepetition(session)
    /\ FindMd5(cardSets[session.cardSet], md5, 1) > 0
    /\ PostCardSet("review", md5, review)

(* C3: in a spaced-repetition session (due_new, due or new) a review with
   outcome correct sets the reviewed card's streak to its previous value + 1
   and its last review time to now; outcome incorrect sets the streak to 0,
   so that the card has interval 0, and the last review time to now; no
   other card of any card set is changed. *)
C3_Review ==
    [][\A md5 \in Md5Values, review \in {"correct", "incorrect"} :
          ReviewStep(md5, review)
            => LET id == session.cardSet
                   i == FindMd5(cardSets[id], md5, 1)
                   old == cardSets[id][i]
                   new == cardSets'[id][i]
               IN /\ new.LastReviewTime = now
                  /\ review = "correct" => new.CorrectCount = old.CorrectCount + 1
                  /\ review = "incorrect"
                       => new.CorrectCount = 0 /\ ~IntervalPanics(new) /\ Interval(new) = 0
                  /\ new = [old EXCEPT !.LastReviewTime = new.LastReviewTime,
                                       !.CorrectCount = new.CorrectCount]
                  /\ OthersUnchanged(id, i)]_vars

\* C3: card a of a.cd, of streak 2 and reviewed at hour 0, was answered
\* correct at hour 24 in the due or new session
C3_Witness ==
    /\ up
    /\ session.active /\ session.cardType = "due_new" /\ session.cardSet = "a.cd"
    /\ now = 24
    /\ changes = 1
    /\ Len(disk["a.cd"].lines) = 4
    /\ cardSets["a.cd"][1].CorrectCount = 3
    /\ cardSets["a.cd"][1].LastReviewTime = 24
    /\ "a.cd" \in save

\* the step is the POST of a review in a drill session
DrillStep ==
    /\ up
    /\ IsDrill(session)
    /\ \E md5 \in Md5Values, review \in {"correct", "incorrect", "skip"} :
          PostCardSet("review", md5, review)

(* C4: in a drill session (the all link or a numeric interval link) no
   review outcome, correct, incorrect or skip, changes any card's streak or
   last review time, and the card set is not added to the card sets that
   need a save. *)
C4_Drill ==
    [][(cardSets' = cardSets /\ save' = save) \/ ~DrillStep]_vars

\* C4: a card was answered correct in a drill session, which has it done,
\* and no card set needs a save
C4_Witness ==
    /\ up
    /\ IsDrill(session)
    /\ session.cardsDone # {}
    /\ page.kind \in {"front", "message"}
    /\ save = {}
    /\ changes = 0

\* what a card set keeps of a card from one run to the next
Triple(c) == <<c.Id, c.CorrectCount, c.LastReviewTime>>
Triples(cs, inCardFile) ==
    {Triple(cs[i]) : i \in {k \in 1..Len(cs) : cs[k].InCardFile = inCardFile}}

(* C5: round trip: for any loaded card set and any reviews applied to it,
   SaveCardData followed by a fresh load of the same definition and progress
   files succeeds and yields the same (id, streak, last review time) for
   every defined card; with clean = true no orphaned card is present after
   the reload, with clean = false every orphaned card is present again with
   its triple. *)
C5_RoundTrip ==
    up => \A id \in SetIds, clean \in BOOLEAN :
            LET again == Load(DefLines(id), SaveCardData(cardSets[id], clean))
            IN /\ again.err = ""
               /\ Triples(again.cards, TRUE) = Triples(cardSets[id], TRUE)
               /\ Triples(again.cards, FALSE) =
                     IF clean THEN {} ELSE Triples(cardSets[id], FALSE)

\* the record a line of a progress file holds, for a file that loads
RecordOf(l) ==
    [id |-> Split(l, Delim)[1],
     t |-> UnmarshalText(Split(l, Delim)[2]),
     n |-> Atoi(Split(l, Delim)[3])]

HasRecord(id, ls) == \E k \in 1..Len(ls) : RecordOf(ls[k]).id = id

\* the last record of the file for this id
LastRecord(id, ls) ==
    RecordOf(ls[CHOOSE k \in 1..Len(ls) :
                    /\ RecordOf(ls[k]).id = id
                    /\ \A m \in (k + 1)..Len(ls) : RecordOf(ls[m]).id # id])

\* the records that name no defined card, each id where it comes first
FirstOrphanRecords(def, ls) ==
    SelectSeq([k \in 1..Len(ls) |-> k],
              LAMBDA k : /\ \A i \in 1..Len(def) : def[i].Id # RecordOf(ls[k]).id
                         /\ \A m \in 1..(k - 1) : RecordOf(ls[m]).id # RecordOf(ls[k]).id)

(* C6: progress merge at load: a record whose id is the id of a card already
   in the list overwrites that card's streak and last review time and
   nothing else; any other record appends one orphaned card (not defined in
   the file, empty front and back) with its id, streak and time; the list is
   the defined cards in definition order, then the orphaned cards in record
   order. *)
C6_Merge ==
    [][(Start /\ up')
        => \A id \in SetIds :
             LET def == LoadCards(DefLines(id)).cards
                 ls == disk[id].lines
                 orphans == FirstOrphanRecords(def, ls)
                 got == cardSets'[id]
             IN /\ Len(got) = Len(def) + Len(orphans)
                /\ \A i \in 1..Len(def) :
                      got[i] = IF HasRecord(def[i].Id, ls)
                               THEN [def[i] EXCEPT
                                       !.CorrectCount = LastRecord(def[i].Id, ls).n,
                                       !.LastReviewTime = LastRecord(def[i].Id, ls).t]
                               ELSE def[i]
                /\ \A j \in 1..Len(orphans) :
                      LET oid == RecordOf(ls[orphans[j]]).id
                          o == got[Len(def) + j]
                      IN /\ o.Id = oid
                         /\ ~o.InCardFile
                         /\ o.Front = <<>> /\ o.Back = <<>>
                         /\ o.CorrectCount = LastRecord(oid, ls).n
                         /\ o.LastReviewTime = LastRecord(oid, ls).t]_vars

\* C6: a.cd was loaded with a progress file of four records: two for its
\* cards a and x, two for the id z, which no card has
C6_Witness ==
    /\ up
    /\ page = NoPage
    /\ Len(disk["a.cd"].lines) = 4
    /\ Len(cardSets["a.cd"]) = 3
    /\ Triple(cardSets["a.cd"][1]) = << <<"a">>, 2, 0 >>
    /\ Triple(cardSets["a.cd"][2]) = << <<"x">>, 3, -24 >>
    /\ Triple(cardSets["a.cd"][3]) = << <<"z">>, 2, 24 >>
    /\ ~cardSets["a.cd"][3].InCardFile

(* C7: the streak is a non-negative integer for every card in every
   reachable state: after any load and any reviews and saves, no card has a
   streak below 0. *)
C7_NonNegative ==
    \A id \in DOMAIN cardSets :
        \A i \in 1..Len(cardSets[id]) : cardSets[id][i].CorrectCount >= 0

\* the cards that should persist
Persisting(cs, clean) == SelectSeq(cs, LAMBDA c : ~clean \/ c.InCardFile)

\* one record (id, last review time, streak) per card, in list order
RecordsOf(cs) ==
    [i \in 1..Len(cs) |->
        cs[i].Id \o <<" ", "|", " ">> \o <<MarshalText(cs[i].LastReviewTime)>>
                 \o <<" ", "|", " ">> \o <<FormatInt(cs[i].CorrectCount)>>]

(* C8: SaveCardData writes exactly one record (id, last review time, streak)
   per card that should persist, in list order: with clean = true, as
   gocards --clean saves, exactly the cards defined in the file; with
   clean = false, as the update of the main page saves, every card, the
   orphaned ones included. *)
C8_Records ==
    [][/\ \A id \in SetIds :
            (Clean(id) /\ Load(DefLines(id), disk[id]).err = "")
                => /\ disk'[id].exists
                   /\ disk'[id].lines =
                         RecordsOf(Persisting(Load(DefLines(id), disk[id]).cards, TRUE))
       /\ (PostMain("update") /\ page'.text # "Unable to save card sets")
            => \A id \in save : /\ disk'[id].exists
                                /\ disk'[id].lines = RecordsOf(Persisting(cardSets[id], FALSE))]_vars

\* C8: gocards --clean has rewritten the progress file of a.cd, which held
\* two records for the id z that no card has: the records of a and x are left
C8_Witness ==
    /\ ~up
    /\ changes = 1
    /\ disk["a.cd"].exists
    /\ disk["a.cd"].lines = << DataLine(<<"a">>, 0, 2), DataLine(<<"x">>, -24, 3) >>

\* the card set is as its files gave it at the last load, or as the last save
\* wrote it
AsLoadedOrSaved(id) ==
    \/ cardSets[id] = Load(DefLines(id), disk[id]).cards
    \/ disk[id] = SaveCardData(cardSets[id], FALSE)

\* the page of an update that saveCardSets ended with an error
SaveFailed == Msg("Unable to save card sets")

(* C30: with the requests handled one at a time, every card set that holds a
   card whose streak or last review time is not the one last loaded or last
   saved is in h.save; an update that succeeds writes every card set of
   h.save, the orphaned cards included, and empties h.save; an update that
   fails leaves h.save as it was. *)
C30_DirtyTracking ==
    /\ [](up => \A id \in SetIds : id \notin save => AsLoadedOrSaved(id))
    /\ [][PostMain("update")
            => IF page' = SaveFailed
               THEN save # {} /\ save' = save
               ELSE /\ save' = {}
                    /\ \A id \in save : disk'[id] = File(RecordsOf(cardSets[id]))
                    /\ \A id \in SetIds \ save : disk'[id] = disk[id]]_vars

\* C30: a card of a card set was reviewed, the update failed and the card set
\* is still to be saved
C30_Witness ==
    /\ up
    /\ page = SaveFailed
    /\ \E id \in save : ~AsLoadedOrSaved(id)

\* a review has set the last review time of a card of the card set and not
\* yet its streak
MidReview(id) == reviewReq.pc = "count" /\ session.cardSet = id

(* C31: with a review and an update served at once, whenever both requests
   are over no card set holds review changes that are neither on disk nor
   marked in h.save, and no progress file is written with a record that has
   the last review time of one review and the streak from before it. *)
C31_Serialized ==
    /\ []((up /\ NoRequests) => \A id \in SetIds : id \notin save => AsLoadedOrSaved(id))
    /\ [][\A id \in SetIds : SaveWrite(id) => ~MidReview(id)]_vars

\* the fingerprints of the cards of a list
Md5s(cs) == {cs[i].Md5 : i \in 1..Len(cs)}

(* C32: getCards returns at most 10 cards; when the selection holds more
   than 10 cards it returns exactly 10 of them, no card left out has a higher
   streak than a card returned, and the cards returned are in descending
   order of streak, those of one streak in the order of the list. *)
C32_PageOfTen ==
    (up /\ session.active /\ ~GetCardsPanics(session, cardSets))
        => LET cands == Selection(session, cardSets, now)
               got == getCards(session, cardSets, now)
               pos(c) == CHOOSE i \in 1..Len(cands) : cands[i] = c
           IN /\ Len(got) <= PageSize
              /\ Len(cands) <= PageSize => got = cands
              /\ Len(cands) > PageSize
                    => /\ Len(got) = PageSize
                       /\ \A j \in 1..Len(got) : got[j].Md5 \in Md5s(cands)
                       /\ \A i \in 1..Len(cands), j \in 1..Len(got) :
                             cands[i].Md5 \notin Md5s(got)
                                => cands[i].CorrectCount <= got[j].CorrectCount
                       /\ \A j \in 1..(Len(got) - 1) :
                             \/ got[j].CorrectCount > got[j + 1].CorrectCount
                             \/ /\ got[j].CorrectCount = got[j + 1].CorrectCount
                                /\ pos(got[j]) < pos(got[j + 1])

(* C33: the POST of a review whose path names the card set A changes no
   card of another card set and adds no other card set to h.save. *)
C33_OwnCardSet ==
    [][\A parts \in Paths, md5 \in Md5Values, review \in {"correct", "incorrect"} :
          PostCardSetTo(parts, "review", md5, review)
            => \A other \in SetIds \ {parseCardSetUrl(parts).cardSetId} :
                  /\ cardSets'[other] = cardSets[other]
                  /\ other \in save' => other \in save]_vars

\* the path names no card set of the handler
NamesNoCardSet(parts) == parseCardSetUrl(parts).cardSetId \notin DOMAIN cardSets

(* C34: a GET whose path names no card set writes the error Invalid card
   set and no front of a card, leaves the session as it is and changes no
   card, whether a session was open or not. *)
C34_InvalidCardSet ==
    [][\A parts \in Paths :
          (NamesNoCardSet(parts) /\ GetCardSet(parts))
            => /\ page'.err = "Invalid card set"
               /\ page'.kind # "front"
               /\ session' = session
               /\ cardSets' = cardSets]_vars

\* the error handleCardSetPost returns for a form it rejects, "" for a form
\* it accepts
FormError(action, md5, review) ==
    IF ~session.active THEN "Session not defined"
    ELSE IF action = "" THEN "Action not defined"
    ELSE IF md5 = <<>> THEN "MD5 not defined"
    ELSE IF md5 \notin Md5s(cardSets[session.cardSet]) THEN "Invalid MD5"
    ELSE IF action \notin {"back", "review", "skip"} THEN "Invalid action"
    ELSE IF action = "review" /\ review \notin {"correct", "incorrect", "skip"}
    THEN "Inavlid review"
    ELSE ""

\* handleCardSetPost has changed no card, no card done and no card set to
\* save
NothingRecorded(r) ==
    /\ r.cardSets = cardSets /\ r.session = session /\ r.save = save
    /\ ~r.recorded /\ ~r.panic

(* C35: the POST of a card set path with no session open, with no action or
   an unknown one, with no md5 or the md5 of no card of the session's card
   set, or with an unknown review value returns its error and changes no
   card, no card done and no card set to save; the actions back and skip and
   the review value skip change none of them either. *)
C35_NothingRecorded ==
    up => \A action \in Actions, md5 \in Md5Values :
             \A review \in ReviewValues(action) :
                \E r \in {handleCardSetPost(session, cardSets, save, now,
                                             action, md5, review)} :
                   /\ r.err = FormError(action, md5, review)
                   /\ r.err # "" => NothingRecorded(r) /\ ~r.back
                   /\ (action \in {"back", "skip"} \/ review = "skip")
                        => NothingRecorded(r)

\* C35: a session is open, a card set is to be saved, and a form was
\* rejected for its review value
C35_Witness ==
    /\ up
    /\ session.active
    /\ save # {}
    /\ page = Msg("Inavlid review")

-----------------------------------------------------------------------------
(* What the card file grammar says of one line, stated without the parser *)

IsBlankChar(c) == c \in {" ", "\t"}

\* s without its leading and trailing spaces and tabs
Stripped(s) ==
    IF \A k \in 1..Len(s) : IsBlankChar(s[k]) THEN <<>>
    ELSE LET a == CHOOSE i \in 1..Len(s) :
                    ~IsBlankChar(s[i]) /\ \A k \in 1..(i - 1) : IsBlankChar(s[k])
             b == CHOOSE i \in 1..Len(s) :
                    ~IsBlankChar(s[i]) /\ \A k \in (i + 1)..Len(s) : IsBlankChar(s[k])
         IN SubSeq(s, a, b)

DelimAt(s, i) == i + 2 <= Len(s) /\ s[i] = " " /\ s[i + 1] = "|" /\ s[i + 2] = " "

HasDelim(s) == \E i \in 1..Len(s) : DelimAt(s, i)

\* the place of the first delimiter of a line that holds one
FirstDelim(l) == CHOOSE i \in 1..Len(l) : DelimAt(l, i) /\ \A k \in 1..(i - 1) : ~DelimAt(l, k)

Field1(l) == SubSeq(l, 1, FirstDelim(l) - 1)
Field2(l) == SubSeq(l, FirstDelim(l) + 3, Len(l))

\* l has exactly two fields
TwoFields(l) == HasDelim(l) /\ ~HasDelim(Field2(l))

\* f is optional space, [, a text of at least one character, ], the rest:
\* the places of [ and of the ] that ends the bracketed text
BracketAt(f, i, j) ==
    /\ j > i + 1
    /\ \A k \in 1..(i - 1) : IsBlankChar(f[k])
    /\ f[i] = "["
    /\ f[j] = "]"
    /\ \A k \in (i + 2)..(j - 1) : f[k] # "]"

IsBracketed(f) == \E i \in 1..Len(f), j \in 1..Len(f) : BracketAt(f, i, j)

BracketPlace(f) == CHOOSE p \in (1..Len(f)) \X (1..Len(f)) : BracketAt(f, p[1], p[2])

BracketId(f) == Stripped(SubSeq(f, BracketPlace(f)[1] + 1, BracketPlace(f)[2] - 1))
BracketRest(f) == Stripped(SubSeq(f, BracketPlace(f)[2] + 1, Len(f)))

\* a line that LoadCards treats as a card line in the state newCard
CardLine(l) == Len(l) > 0 /\ l[1] # "#"

\* the step scans the line line' in the state newCard
ScansInNewCard == lineNumber' = lineNumber + 1 /\ parseState = newCard /\ ~returned

CardIds == {cards[i].Id : i \in 1..Len(cards)}

\* the card a definition line creates
Defined(id, front, back) ==
    [Md5 |-> <<"md5:">> \o id, Id |-> id, InCardFile |-> TRUE, Front |-> front,
     Back |-> back, LastReviewTime |-> ZeroTime, CorrectCount |-> 0]

\* a card line with two fields whose second field is no fence marker
PlainTwoSides(l) ==
    CardLine(l) /\ TwoFields(l) /\ Stripped(Field2(l)) \notin {Tick, Fence}

TwoSideId(l) ==
    IF IsBracketed(Field1(l)) THEN BracketId(Field1(l)) ELSE Stripped(Field1(l))

TwoSideFront(l) ==
    IF IsBracketed(Field1(l)) THEN BracketRest(Field1(l)) ELSE Stripped(Field1(l))

(* C9, as stated: in the state newCard a card line with exactly two fields
   whose second field is no fence marker appends exactly one card, with the
   id and front of the first field and the trimmed second field as back, and
   the state stays newCard. *)
C9_AlwaysAppends ==
    [][(ScansInNewCard /\ PlainTwoSides(line'))
        => /\ cards' = Append(cards, Defined(TwoSideId(line'), TwoSideFront(line'),
                                             Stripped(Field2(line'))))
           /\ parseState' = newCard]_vars

(* C9, amended: the same, provided the id is not empty after trimming and is
   not the id of a card already appended; otherwise no card is appended and
   LoadCards returns an error and no cards. *)
C9_TwoSides ==
    [][(ScansInNewCard /\ PlainTwoSides(line'))
        => IF TwoSideId(line') = <<>> \/ TwoSideId(line') \in CardIds
           THEN loadErr' # "" /\ cards' = <<>> /\ returned'
           ELSE /\ cards' = Append(cards, Defined(TwoSideId(line'), TwoSideFront(line'),
                                                  Stripped(Field2(line'))))
                /\ parseState' = newCard
                /\ loadErr' = ""]_vars

\* C9: the two lines a | b and [x] a | b have been read and each gave its card
C9_Witness ==
    /\ lineNumber = 2
    /\ line = <<"[", "x", "]", " ", "a", " ", "|", " ", "b">>
    /\ parseState = newCard
    /\ loadErr = ""
    /\ cards = << Defined(<<"a">>, <<"a">>, <<"b">>),
                  Defined(<<"x">>, <<"a">>, <<"b">>) >>

\* a card line with a single field
OneSide(l) == CardLine(l) /\ ~HasDelim(l)

OneSideId(l) == IF IsBracketed(l) THEN BracketId(l) ELSE Stripped(l)

OneSideFront(l) ==
    IF ~IsBracketed(l) THEN Stripped(l)
    ELSE IF BracketRest(l) = Tick THEN <<>>
    ELSE BracketRest(l)

OneSideState(l) ==
    IF ~IsBracketed(l) THEN newCard
    ELSE IF BracketRest(l) = Tick THEN frontMulti
    ELSE IF BracketRest(l) = Fence THEN frontMultiCode
    ELSE newCard

(* C10: in the state newCard a card line with one field of the form
   [id] remainder creates a card whose id is the trimmed bracketed text and
   whose back is empty; a remainder that trims to one backquote gives an
   empty front and the state frontMulti, one that trims to the fence gives
   the fence as front and the state frontMultiCode, any other gives the
   trimmed remainder as front and the state newCard; a field without the
   bracket form gives id = front = the trimmed field. A card is created
   unless the id is empty or already used, and then LoadCards fails. *)
C10_OneSide ==
    [][(ScansInNewCard /\ OneSide(line'))
        => IF OneSideId(line') = <<>> \/ OneSideId(line') \in CardIds
           THEN loadErr' # "" /\ cards' = <<>> /\ returned'
           ELSE /\ cards' = Append(cards, Defined(OneSideId(line'), OneSideFront(line'),
                                                  <<>>))
                /\ parseState' = OneSideState(line')
                /\ loadErr' = ""]_vars

\* C10: the line [b] and the fence has been read after the line [x] a
C10_Witness ==
    /\ lineNumber = 2
    /\ line = <<"[", "b", "]", " ", Backquote, Backquote, Backquote>>
    /\ parseState = frontMultiCode
    /\ loadErr = ""
    /\ cards = << Defined(<<"x">>, <<"a">>, <<>>), Defined(<<"b">>, Fence, <<>>) >>

\* a card line with one or two fields, and the id it gives
MakesCard(l) == CardLine(l) /\ (OneSide(l) \/ TwoFields(l))
LineId(l) == IF OneSide(l) THEN OneSideId(l) ELSE TwoSideId(l)

(* C11: if a card line gives an id that is empty after trimming or is the id
   of a card already appended from the same file, LoadCards fails with an
   error tagged with the 1-based number of that line (for a duplicate, the
   line of the second occurrence) and returns no cards at all. *)
C11_IdError ==
    [][(ScansInNewCard /\ MakesCard(line')
            /\ (LineId(line') = <<>> \/ LineId(line') \in CardIds))
        => /\ returned'
           /\ cards' = <<>>
           /\ loadErr' = (IF LineId(line') = <<>>
                          THEN "Id can not be the empty string"
                          ELSE "Duplicate card id")
                             \o " on line " \o ToString(Len(scanned'))]_vars

\* C11: the line a came second, after the line a | b that gave the id a
C11_Witness ==
    /\ returned
    /\ scanned = << <<"a", " ", "|", " ", "b">>, <<"a">> >>
    /\ loadErr = "Duplicate card id on line 2"
    /\ cards = <<>>

\* the step is the end of the file: the scanner has no more line
EndsFile == ~returned /\ returned' /\ scanned' = scanned

(* C12: if the input ends while the parser is in frontMulti, frontMultiCode,
   backMulti or backMultiCode, LoadCards returns an error and no cards; it
   returns the card list only when the final state is newCard. *)
C12_EndOfInput ==
    [][EndsFile
        => IF parseState \in {frontMulti, frontMultiCode, backMulti, backMultiCode}
           THEN loadErr' # "" /\ cards' = <<>>
           ELSE parseState = newCard /\ loadErr' = "" /\ cards' = cards]_vars

\* C12: the file ended after its only line, which opened a multi-line front
C12_Witness ==
    /\ returned
    /\ scanned = << <<"[", "x", "]", " ", Backquote>> >>
    /\ parseState = frontMulti
    /\ loadErr = "Invalid parse state on line 1"
    /\ cards = <<>>

\* the lines joined by newlines
RECURSIVE JoinLines(_)
JoinLines(ls) ==
    IF ls = <<>> THEN <<>>
    ELSE IF Len(ls) = 1 THEN ls[1]
    ELSE ls[1] \o <<"\n">> \o JoinLines(Tail(ls))

\* the lines that open a multi-line front and a multi-line back with the
\* one-backquote marker
OpensFront(l) == OneSide(l) /\ IsBracketed(l) /\ BracketRest(l) = <<Backquote>>
OpensBack(l) ==
    CardLine(l) /\ TwoFields(l) /\ Stripped(Field2(l)) = <<Backquote>>
        /\ TwoSideId(l) # <<>>

\* the terminal tokens of frontMulti all start with a backquote and the
\* delimiter; the terminal token of backMulti is one backquote
FrontTerminal(l) ==
    Len(l) >= 4 /\ SubSeq(l, 1, 4) = <<Backquote, " ", "|", " ">>
BackTerminal(l) == l = <<Backquote>>

\* the lines read after the first one
Body == SubSeq(scanned, 2, Len(scanned))

(* C13: for a multi-line front or back opened with the one-backquote marker
   whose body is the lines L1..Ln, none of them a terminal token of the
   state, the side is exactly L1, ..., Ln joined by newlines: no body line
   is trimmed, dropped or reordered, empty lines (also leading ones) and
   lines starting with # included. Stated for the card opened by the first
   line of the file. *)
C13_BodyKept ==
    (~returned /\ scanned # <<>>)
        => /\ (OpensFront(scanned[1]) /\ \A k \in 1..Len(Body) : ~FrontTerminal(Body[k]))
                => /\ parseState = frontMulti
                   /\ Len(cards) = 1
                   /\ cards[1].Front = JoinLines(Body)
           /\ (OpensBack(scanned[1]) /\ \A k \in 1..Len(Body) : ~BackTerminal(Body[k]))
                => /\ parseState = backMulti
                   /\ Len(cards) = 1
                   /\ cards[1].Back = JoinLines(Body)

\* the line that opens a fenced front, and the terminal tokens of
\* frontMultiCode, which all start with the fence and the delimiter
OpensFenced(l) ==
    OneSide(l) /\ IsBracketed(l) /\ BracketRest(l) = <<Backquote, Backquote, Backquote>>
        /\ BracketId(l) # <<>>
FenceTerminal(l) ==
    Len(l) >= 6
        /\ SubSeq(l, 1, 6) = <<Backquote, Backquote, Backquote, " ", "|", " ">>
AfterFence(l) == SubSeq(l, 7, Len(l))

\* the step scans the line line' in the state frontMultiCode
ScansInFenced ==
    ~returned /\ parseState = frontMultiCode /\ scanned' = Append(scanned, line')

\* the file is a fenced opener, body lines, and a closing fence with a back
FencedCard ==
    /\ ~returned
    /\ Len(scanned) >= 2
    /\ OpensFenced(scanned[1])
    /\ \A k \in 2..(Len(scanned) - 1) : ~FenceTerminal(scanned[k])
    /\ FenceTerminal(scanned[Len(scanned)])
    /\ AfterFence(scanned[Len(scanned)]) \notin {<<Backquote>>, <<Backquote, Backquote, Backquote>>}

FencedCardParsed ==
    /\ parseState = newCard
    /\ loadErr = ""
    /\ cards = << Defined(BracketId(scanned[1]),
                          JoinLines(<< <<Backquote, Backquote, Backquote>> >>
                                      \o SubSeq(scanned, 2, Len(scanned) - 1)
                                      \o << <<Backquote, Backquote, Backquote>> >>),
                          AfterFence(scanned[Len(scanned)])) >>

(* C14: fenced front: a line [y] and the fence, followed by body lines
   B1..Bn and then the line made of the fence, the delimiter and a back
   text, yields one card with id y, front equal to the fence, B1, ..., Bn,
   the fence joined by newlines and back equal to the back text, and the
   parser is back in newCard; the closing fence is appended to the front on
   every terminal transition out of frontMultiCode, and a body line is
   appended as it is. *)
C14_FencedFront ==
    [][/\ (FencedCard => FencedCardParsed)'
       /\ ScansInFenced
            => LET old == cards[Len(cards)]
                   new == cards'[Len(cards)]
                   closed == old.Front \o <<"\n", Backquote, Backquote, Backquote>>
               IN /\ Len(cards') = Len(cards)
                  /\ \A k \in 1..(Len(cards) - 1) : cards'[k] = cards[k]
                  /\ loadErr' = ""
                  /\ IF ~FenceTerminal(line')
                     THEN /\ parseState' = frontMultiCode
                          /\ new = [old EXCEPT !.Front = old.Front \o <<"\n">> \o line']
                     ELSE IF AfterFence(line') = <<Backquote>>
                     THEN /\ parseState' = backMulti
                          /\ new = [old EXCEPT !.Front = closed]
                     ELSE IF AfterFence(line') = <<Backquote, Backquote, Backquote>>
                     THEN /\ parseState' = backMultiCode
                          /\ new = [old EXCEPT !.Front = closed,
                                               !.Back = <<Backquote, Backquote, Backquote>>]
                     ELSE /\ parseState' = newCard
                          /\ new = [old EXCEPT !.Front = closed,
                                               !.Back = AfterFence(line')]]_vars

\* C14: the lines [b] and the fence, a, and the fence with the back b have
\* been read
C14_Witness ==
    /\ ~returned
    /\ scanned = << <<"[", "b", "]", " ", Backquote, Backquote, Backquote>>,
                    <<"a">>,
                    <<Backquote, Backquote, Backquote, " ", "|", " ", "b">> >>
    /\ parseState = newCard
    /\ cards = << Defined(<<"b">>,
                          <<Backquote, Backquote, Backquote, "\n", "a", "\n",
                            Backquote, Backquote, Backquote>>,
                          <<"b">>) >>

\* an empty line or a line of spaces and tabs only
BlankLine(l) == \A k \in 1..Len(l) : IsBlankChar(l[k])
CommentLine(l) == Len(l) > 0 /\ l[1] = "#"

(* C15: in newCard a blank line (empty, or holding only spaces and tabs) or
   a line starting with # is skipped: it appends no card, raises no error
   and leaves the state newCard. *)
C15_Skipped ==
    [][(ScansInNewCard /\ (BlankLine(line') \/ CommentLine(line')))
        => /\ cards' = cards
           /\ loadErr' = ""
           /\ ~returned'
           /\ parseState' = newCard]_vars

-----------------------------------------------------------------------------
(* The lines of a multi-line front or back *)

\* the loop body of LoadCards has run on the line `line'`
Scanned == lineNumber' = lineNumber + 1
MultiStates == {frontMulti, frontMultiCode, backMulti, backMultiCode}

\* the step appends no card and leaves the front of the last card, and all
\* the cards before it, as they were
FrontKept ==
    /\ loadErr' = ""
    /\ fronts' = fronts
    /\ Len(cards') = Len(cards)
    /\ cards' = [cards EXCEPT ![Len(cards)].Back = cards'[Len(cards)].Back]

(* C38: in frontMulti the line "` | `" leaves the back empty and moves to
   backMulti, the line "` | ```" makes the back the fence and moves to
   backMultiCode, and any other line that starts with "` | " makes the back
   the text after these four characters and moves to newCard; in the three
   cases the front collected so far stays as it is and no card is
   appended. *)
C38_FrontMultiTerminal ==
    [][(parseState = frontMulti /\ Scanned /\ HasPrefix(line', Tick \o Delim))
        => /\ FrontKept
           /\ IF line' = Tick \o Delim \o Tick
              THEN parseState' = backMulti /\ cards'[Len(cards)].Back = <<>>
              ELSE IF line' = Tick \o Delim \o Fence
              THEN parseState' = backMultiCode /\ cards'[Len(cards)].Back = Fence
              ELSE /\ parseState' = newCard
                   /\ Tick \o Delim \o cards'[Len(cards)].Back = line']_vars

C38_Witness ==
    /\ ~returned
    /\ scanned = << <<"[", "x", "]", " ", Backquote>>, <<"a">>,
                    Tick \o Delim \o <<"b">> >>
    /\ parseState = newCard
    /\ cards = << NewCard(<<"x">>, TRUE, <<"a">>, <<"b">>) >>

(* C39: while LoadCards reads a file and is in frontMulti, frontMultiCode,
   backMulti or backMultiCode, it holds at least one card; a line read in
   one of these states changes nothing but the front or the back of the last
   card (no card is appended, the ids and the cards before it stay as they
   are); and the error of a multi-line state with no card is never
   returned. *)
C39_CardToExtend ==
    /\ []((~returned /\ parseState \in MultiStates) => Len(cards) >= 1)
    /\ [][(parseState \in MultiStates /\ Scanned)
            => /\ loadErr' = ""
               /\ fronts' = fronts
               /\ Len(cards') = Len(cards)
               /\ cards' = [cards EXCEPT
                               ![Len(cards)].Front = cards'[Len(cards)].Front,
                               ![Len(cards)].Back = cards'[Len(cards)].Back]]_vars
    /\ [](\A n \in 0..MaxLines :
             loadErr # errorWithLineNumber("Unexpected number of card", n))

C39_Witness ==
    /\ ~returned
    /\ scanned = << <<"b", " ", "|", " ", "a", "\t">>, <<"a", " ", "|", " ", Backquote>>,
                    <<"a">> >>
    /\ parseState = backMulti
    /\ Len(cards) = 2
    /\ cards[1].Id = <<"b">> /\ cards[1].Back = <<"a">>
    /\ cards[2].Id = <<"a">> /\ cards[2].Back = <<"a">>

-----------------------------------------------------------------------------
(* Loading: files that are not there, records that are malformed *)

ZeroProgress(cs) ==
    \A k \in 1..Len(cs) :
        cs[k].CorrectCount = 0 /\ cs[k].LastReviewTime = ZeroTime /\ cs[k].InCardFile

(* C16: a progress file that is not there is no error: LoadCardData returns
   the defined cards as they are (streak 0, zero review time, no orphan
   added) and the handler starts with them; a card file that is not there
   makes the load fail: the clean run writes nothing and prints the error. *)
C16_MissingFiles ==
    [][/\ Start
            => \A id \in SetIds :
                  ~disk[id].exists
                    => LET defined == LoadCards(DefLines(id)).cards
                       IN /\ LoadCardData(disk[id], defined) = [cards |-> defined, err |-> ""]
                          /\ Load(DefLines(id), disk[id]) = [cards |-> defined, err |-> ""]
                          /\ ZeroProgress(defined)
                          /\ up' => cardSets'[id] = defined
       /\ \A id \in CleanIds :
            (Clean(id) /\ ~CardFile(id).exists)
                => /\ disk' = disk
                   /\ page'.kind = "message"
                   /\ page'.text # ""]_vars

C16_Witness ==
    /\ up
    /\ page = NoPage
    /\ \A id \in SetIds : ~disk[id].exists
    /\ \A id \in SetIds :
          /\ cardSets[id] = LoadCards(DefLines(id)).cards
          /\ Len(cardSets[id]) = 2
          /\ ZeroProgress(cardSets[id])

\* a progress record LoadCardData rejects
Malformed(l) ==
    LET data == Split(l, Delim)
    IN Len(data) # 3 \/ ~UnmarshalOk(data[2]) \/ ~AtoiOk(data[3])
HasMalformed(file) ==
    file.exists /\ \E k \in 1..Len(file.lines) : Malformed(file.lines[k])

(* C17: if a record of the progress file is malformed (a number of fields
   other than 3, a timestamp that does not parse, a streak that is not an
   integer) the load fails and the card set has no cards, neither the
   defined ones nor the records merged before the bad line: the handler
   does not start, and a clean run writes nothing and prints the error. *)
C17_Malformed ==
    [][/\ Start
            => \A id \in SetIds :
                  HasMalformed(disk[id])
                    => /\ Load(DefLines(id), disk[id]).cards = <<>>
                       /\ Load(DefLines(id), disk[id]).err # ""
                       /\ ~up'
                       /\ cardSets' = <<>>
                       /\ page'.kind = "message"
                       /\ \E bad \in SetIds : /\ Load(DefLines(bad), disk[bad]).err # ""
                                               /\ page'.text = Load(DefLines(bad), disk[bad]).err
       /\ \A id \in SetIds :
            (Clean(id) /\ HasMalformed(disk[id]))
                => /\ disk' = disk
                   /\ page'.kind = "message"
                   /\ page'.text # ""]_vars

C17_Witness ==
    /\ ~up
    /\ cardSets = <<>>
    /\ disk["a.cd"].lines = << DataLine(<<"z">>, 0, 1), <<"a", " ", "|", " ", "b">> >>
    /\ HasMalformed(disk["a.cd"])
    /\ page = Msg("Invalid line found in card data")

-----------------------------------------------------------------------------
(* Statistics and selections *)

Count(cs, P(_)) == Cardinality({k \in 1..Len(cs) : P(cs[k])})

\* the cards that go in the buckets: in the card file and not blank
Counted(c) == c.InCardFile /\ ~Blank(c)

\* the days of the interval table
IntervalDays == {Intervals[i] : i \in 1..Len(Intervals)}

\* a read of the map IntervalCount
CountAt(ic, n) == IF n \in DOMAIN ic THEN ic[n] ELSE 0

RECURSIVE SumCounts(_, _)
SumCounts(ic, keys) ==
    IF keys = {} THEN 0
    ELSE LET n == CHOOSE n \in keys : TRUE
         IN ic[n] + SumCounts(ic, keys \ {n})

\* the card is due at the instant t: its interval has elapsed
Elapsed(c, t) == t - c.LastReviewTime >= 24 * Interval(c)

StatsRight(st, cs, t) ==
    /\ st.TotalCount = Len(cs)
    /\ st.OldCount = Count(cs, LAMBDA c : ~c.InCardFile)
    /\ st.BlankCount = Count(cs, LAMBDA c : c.InCardFile /\ Blank(c))
    /\ DOMAIN st.IntervalCount \subseteq IntervalDays
    /\ \A n \in IntervalDays :
          CountAt(st.IntervalCount, n) = Count(cs, LAMBDA c : Counted(c) /\ Interval(c) = n)
    /\ st.NewCount = Count(cs, LAMBDA c : Counted(c) /\ Interval(c) = 0)
    /\ st.DueCount = Count(cs, LAMBDA c : Counted(c) /\ Interval(c) > 0 /\ Elapsed(c, t))
    /\ st.TotalCount = st.OldCount + st.BlankCount
                          + SumCounts(st.IntervalCount, DOMAIN st.IntervalCount)
    /\ st.NewCount = CountAt(st.IntervalCount, 0)

(* C18: the statistics the main page shows for a card set, whenever Stats
   returns: TotalCount is the number of cards, the orphaned count the number
   of cards missing from the card file, BlankCount the number of blank cards
   of the file; over the cards of the file that are not blank,
   IntervalCount[n] is the number with interval n, NewCount the number with
   interval 0 and DueCount the number with a positive interval that are
   due; TotalCount = orphaned + BlankCount + the sum of IntervalCount, and
   NewCount = IntervalCount[0]. *)
C18_Stats ==
    [][(page'.kind = "main" /\ now' = now)
        => /\ DOMAIN page'.stats = DOMAIN cardSets'
           /\ \A id \in DOMAIN cardSets' :
                 StatsRight(page'.stats[id], cardSets'[id], now')]_vars

C18_Witness ==
    /\ up
    /\ page.kind = "main"
    /\ page.stats["a.cd"].TotalCount = 3
    /\ page.stats["a.cd"].OldCount = 1
    /\ page.stats["a.cd"].NewCount = 1
    /\ page.stats["a.cd"].DueCount = 1
    /\ page.stats["a.cd"].IntervalCount = (0 :> 1) @@ (1 :> 1)
    /\ page.stats["b.cd"].BlankCount = 1
    /\ page.stats["b.cd"].NewCount = 1

\* the card of the session's set that the page shows
Shown(k) == cardSets[session.cardSet][k].Md5 = page.md5

(* C19: no selection a session draws its cards from (all, due or new, due,
   new, by interval) returns a blank card, and so none returns a card
   missing from the card file: the card a front page shows is not blank and
   is in the card file. *)
C19_NoBlankSelected ==
    (up /\ session.active /\ page.kind = "front")
        => \A k \in 1..Len(cardSets[session.cardSet]) :
              Shown(k) => /\ ~Blank(cardSets[session.cardSet][k])
                          /\ cardSets[session.cardSet][k].InCardFile

Range(seq) == {seq[k] : k \in 1..Len(seq)}

\* the card is new, the card is due at the instant t
IsNew(c) == Interval(c) = 0
IsDue(c, t) == Interval(c) > 0 /\ Elapsed(c, t)

SelectionsRight(cs, t) ==
    /\ GetDueOrNewCards(cs, t)
          = SelectSeq(cs, LAMBDA c : ~Blank(c) /\ (IsNew(c) \/ IsDue(c, t)))
    /\ Range(GetDueOrNewCards(cs, t))
          = Range(GetIntervalCards(cs, 0)) \cup Range(GetDueCards(cs, t))
    /\ Range(GetIntervalCards(cs, 0)) \cap Range(GetDueCards(cs, t)) = {}
    /\ Len(GetDueOrNewCards(cs, t))
          = Len(GetIntervalCards(cs, 0)) + Len(GetDueCards(cs, t))
    /\ GetDueCards(cs, t) = SelectSeq(cs, LAMBDA c : ~Blank(c) /\ IsDue(c, t))
    /\ \A n \in IntervalDays \cup {-1, 4} :
          GetIntervalCards(cs, n) = SelectSeq(cs, LAMBDA c : ~Blank(c) /\ Interval(c) = n)

(* C20: GetDueOrNewCards returns exactly the cards that are not blank and
   have interval 0 or are due, in the order of the input; at the same
   instant it is the disjoint union of GetIntervalCards(cards, 0) and
   GetDueCards(cards); GetIntervalCards(cards, n) returns exactly the cards
   that are not blank and have interval n. Stated for the card sets the
   handler holds, at the instant of the clock, whenever the calls return;
   a session of the type due_new draws from that selection. *)
C20_Selections ==
    /\ up => \A id \in DOMAIN cardSets :
                ~SelectionPanics(cardSets[id]) => SelectionsRight(cardSets[id], now)
    /\ (up /\ session.active /\ session.cardType = "due_new"
            /\ ~SelectionPanics(cardSets[session.cardSet]))
        => getCards(session, cardSets, now)
              = SelectSeq(cardSets[session.cardSet],
                          LAMBDA c : ~Blank(c) /\ (IsNew(c) \/ IsDue(c, now)))

C20_Witness ==
    /\ up
    /\ session.active
    /\ session.cardType = "due_new"
    /\ session.cardSet = "a.cd"
    /\ page.kind = "front"
    /\ ~SelectionPanics(cardSets["a.cd"])
    /\ Len(GetIntervalCards(cardSets["a.cd"], 0)) = 1
    /\ Len(GetDueCards(cardSets["a.cd"], now)) = 1
    /\ Len(GetDueOrNewCards(cardSets["a.cd"], now)) = 2
    /\ Len(cardSets["a.cd"]) = 3

\* no two cards of the list have the same id, nor the same fingerprint
DistinctIds(cs) ==
    \A i, j \in 1..Len(cs) :
        i # j => cs[i].Id # cs[j].Id /\ cs[i].Md5 # cs[j].Md5

(* C29: after every load that succeeds (the card file parsed, the progress
   file merged) the ids of the cards of the card set are pairwise distinct,
   orphaned cards included, also when the progress file holds several
   records of one id (the last one wins); so a fingerprint, a function of
   the id, names at most one card of the set. Stated for the card sets the
   handler holds and for what a load of the files on disk returns. *)
C29_DistinctIds ==
    \A id \in SetIds :
        IF up THEN DistinctIds(cardSets[id])
        ELSE Load(DefLines(id), disk[id]).err = ""
                => DistinctIds(Load(DefLines(id), disk[id]).cards)

C29_Witness ==
    /\ up
    /\ Len(disk["a.cd"].lines) = 4
    /\ disk["a.cd"].lines[3] = DataLine(<<"z">>, 0, 1)
    /\ disk["a.cd"].lines[4] = DataLine(<<"z">>, 24, 2)
    /\ Len(cardSets["a.cd"]) = 3
    /\ cardSets["a.cd"][3].Id = <<"z">>
    /\ cardSets["a.cd"][3].CorrectCount = 2
    /\ ~cardSets["a.cd"][3].InCardFile

-----------------------------------------------------------------------------
(* Sessions answered to their end *)

\* the session is the one of a card set link: the cards due or new
DueOrNewSession == up /\ session.active /\ session.cardType = "due_new"

\* a card of the session is shown
CardShown == page.kind \in {"front", "back"}

NoCardsFound == page = Msg("No cards found")

\* the cards of the session's card set that were new, with streak 0, when
\* the handler loaded the files that are on disk
StartedNew ==
    LET id == session.cardSet
        loaded == Load(DefLines(id), disk[id]).cards
    IN {i \in 1..Len(loaded) : ~Blank(loaded[i]) /\ loaded[i].CorrectCount = 0}

(* C21: in a session of the cards due or new in which every card shown is
   answered correct, the page No cards found is reached; every card that was
   new with streak 0 then has streak 3, one more for each of exactly three
   correct answers, and interval 1, and the statistics the main page shows count
   it in the column of 1 day and no longer as new. *)
C21_QuickStart ==
    /\ (DueOrNewSession /\ CardShown) ~> (DueOrNewSession /\ NoCardsFound)
    /\ []((DueOrNewSession /\ NoCardsFound)
            => LET id == session.cardSet
                   st == Stats(cardSets[id], now)
               IN /\ \A i \in StartedNew :
                        /\ cardSets[id][i].CorrectCount = 3
                        /\ Interval(cardSets[id][i]) = 1
                  /\ StartedNew # {}
                        => /\ st.NewCount = 0
                           /\ 1 \in DOMAIN st.IntervalCount
                           /\ st.IntervalCount[1] >= Cardinality(StartedNew))

\* the cards a drill session draws from, before the cards done are removed:
\* every card of the card set (the all link), or the cards of an interval
Eligible(sess, sets) ==
    IF sess.cardType = "all" THEN sets[sess.cardSet]
    ELSE GetIntervalCards(sets[sess.cardSet], sess.cardInterval)

\* the fingerprints of the eligible cards that are not done
Left(sess, sets) ==
    {Eligible(sess, sets)[i].Md5 : i \in 1..Len(Eligible(sess, sets))} \ sess.cardsDone

\* the drill session's selection can be computed
Drilling(sess, sets) == IsDrill(sess) /\ ~GetCardsPanics(sess, sets)

\* what the page shows is drawn from the cards left
ShowsLeft(pg, sess, sets) ==
    IF Left(sess, sets) = {} THEN pg = Msg("No cards found")
    ELSE pg.kind = "front" /\ pg.md5 \in Left(sess, sets)

(* C22: in a drill session (the all link or an interval link) a card that
   was answered correct is in the session's cards done, by its fingerprint,
   and stays there as long as the session lasts; no front shown is that of a
   card done; a card answered incorrect or skipped is not added to the cards
   done; and the page after an answer is No cards found exactly when every
   eligible card is done, the front of a card that is left otherwise. *)
C22_DrillCompletion ==
    /\ []((up /\ Drilling(session, cardSets) /\ page.kind = "front" /\ page.err = "")
            => page.md5 \in Left(session, cardSets))
    /\ [][(/\ up /\ up'
           /\ IsDrill(session)
           /\ session' # session
           /\ ~\E parts \in Paths : GetCardSet(parts))
            => /\ session.cardsDone \subseteq session'.cardsDone
               /\ [session' EXCEPT !.cardsDone = {}] = [session EXCEPT !.cardsDone = {}]]_vars
    /\ [][(up /\ up' /\ Drilling(session, cardSets))
            => \A md5 \in Md5Values, review \in {"correct", "incorrect", "skip"} :
                  (/\ parseCardSetPost(session, cardSets, "review", md5) = ""
                   /\ PostCardSet("review", md5, review))
                     => /\ session'.cardsDone =
                              IF review = "correct" THEN session.cardsDone \cup {md5}
                              ELSE session.cardsDone
                        /\ ShowsLeft(page', session', cardSets')]_vars

\* C22: both cards of a.cd were answered correct in the session of its all
\* link, which has their two fingerprints and shows No cards found
C22_Witness ==
    /\ up
    /\ session.active /\ session.cardType = "all" /\ session.cardSet = "a.cd"
    /\ Cardinality(session.cardsDone) = 2
    /\ session.cardsDone = {cardSets["a.cd"][i].Md5 : i \in 1..Len(cardSets["a.cd"])}
    /\ page = Msg("No cards found")

-----------------------------------------------------------------------------
(* The interval table of the specification *)

Fib(i) == <<1, 1, 2, 3, 5, 8, 13, 21, 34, 55, 89, 144, 233, 377>>[i]

\* T[min(s, 16)]: zero at the positions 0 to 2, then the Fibonacci numbers
TableAt(s) == IF s <= 2 THEN 0 ELSE IF s >= 16 THEN Fib(14) ELSE Fib(s - 2)

FibRecurrence == Fib(1) = 1 /\ Fib(2) = 1 /\ \A i \in 3..14 : Fib(i) = Fib(i - 1) + Fib(i - 2)

(* C1: for every card with correctStreak s >= 0, Interval returns
   T[min(s, 16)], so 377 for every s >= 17, and the call never fails. *)
C1_IntervalClamps ==
    (outcome.op = "Interval" /\ card.CorrectCount >= 0)
        => /\ ~outcome.panic
           /\ outcome.interval = TableAt(card.CorrectCount)
           /\ FibRecurrence

(* C2: Due is false whenever the interval is 0, whatever lastReviewed is;
   when the interval is n > 0 it is true exactly when the hours elapsed
   between lastReviewed and now are at least 24 * n. *)
C2_Due ==
    (outcome.op = "Due" /\ ~outcome.panic)
        => /\ outcome.interval = TableAt(card.CorrectCount)
           /\ outcome.interval = 0 => ~outcome.due
           /\ outcome.interval > 0
                => (outcome.due <=> now - card.LastReviewTime >= 24 * outcome.interval)

\* C2: Due was called at hour 24 on a card of interval 1 reviewed at hour 0,
\* and found it due
C2_Witness ==
    /\ outcome.op = "Due"
    /\ card = [CorrectCount |-> 3, LastReviewTime |-> 0]
    /\ now = 24
    /\ outcome.interval = 1
    /\ outcome.due

====
